---- MODULE Spec2Model ----
(***************************************************************************)
(* The kernel main loop (Kernel::kernel_loop) and the per-process          *)
(* dispatcher (Kernel::do_process) of kernel/src/sched.rs, run on the      *)
(* redboard_artemis_nano platform with one loaded process.                 *)
(*                                                                         *)
(* The kernel is a single thread: `pc` is its position.  Hardware          *)
(* (interrupt lines, the scheduler timer) and user code (what switch_to    *)
(* comes back with) are the environment.                                   *)
(***************************************************************************)
EXTENDS Integers, Sequences, FiniteSets, TLC

None == "None"

\* Option<T>: the empty tuple is None, a one-element tuple is Some(x).
NoneOpt == <<>>

Some(x) == <<x>>

Unwrap(o) == o[1]

(***************************************************************************)
(* u32 values.  A u32 is kept at its full width as two 16-bit limbs        *)
(* <<high, low>>, since 2^32 itself is not a number the checker can hold.  *)
(***************************************************************************)
LimbBase == 65536

U32Of(n) == <<n \div LimbBase, n % LimbBase>>

U32_MAX == <<LimbBase - 1, LimbBase - 1>>

U32Le(a, b) == a[1] < b[1] \/ (a[1] = b[1] /\ a[2] <= b[2])

U32Lt(a, b) == U32Le(a, b) /\ a # b

\* a - b with the borrow carried from the low limb, reduced mod 2^32.
U32WrappingSub(a, b) ==
    LET borrow == IF a[2] < b[2] THEN 1 ELSE 0
    IN  <<(a[1] - b[1] - borrow + 2 * LimbBase) % LimbBase,
          (a[2] - b[2] + LimbBase) % LimbBase>>

U32Min(a, b) == IF U32Le(a, b) THEN a ELSE b

\* a + b with the carry from the low limb, reduced mod 2^32.
U32WrappingAdd(a, b) ==
    <<(a[1] + b[1] + ((a[2] + b[2]) \div LimbBase)) % LimbBase,
      (a[2] + b[2]) % LimbBase>>

\* Skip re-scheduling a process if its quanta is nearly exhausted.
MIN_QUANTA_THRESHOLD_US == 500

(***************************************************************************)
(* Bounds of the model.                                                    *)
(***************************************************************************)
\* Capacity of the process's task queue.
MaxTasks == 2

\* Timeslices the scheduling policy hands out (microseconds).
Timeslices == {U32Of(500), U32Of(10000)}

\* Values the running scheduler timer is seen to count down through.
TimerReadings == {U32Of(400), U32Of(500), U32Of(501)}

\* Values a timer that has run past its expiry may report.
SkewedReadings == {U32Of(0), U32_MAX}

(***************************************************************************)
(* The board.                                                              *)
(***************************************************************************)
NUM_PROCS == 4

\* The drivers RedboardArtemisNano::with_driver hands out.
BoardDrivers == {"alarm", "led", "gpio", "console", "i2c_master", "ble_radio"}

\* Driver numbers a process puts in a syscall: one the board maps, one it does not.
DriverNums == {"alarm", "no_such_driver"}

\* Subscribe numbers a process puts in a syscall.
SubNums == {0, 1}

\* A match with no arm for the other numbers: every number has a driver.
with_driver_any(driver_num) == driver_num

with_driver(driver_num) ==
    IF driver_num \in BoardDrivers THEN driver_num ELSE None

(***************************************************************************)
(* Values.                                                                 *)
(***************************************************************************)
States == {"Unstarted", "Running", "Yielded", "Fault",
           "StoppedRunning", "StoppedYielded", "StoppedFaulted"}

StoppedExecutingReason ==
    {"NoWorkLeft", "StoppedFaulted", "Stopped", "TimesliceExpired", "KernelPreemption"}

CallbackIds == DriverNums \X SubNums

\* The process's entry point is queued by the kernel, not by a driver.
KernelSource == <<"kernel", 0>>

IpcSource == <<"ipc", 0>>

FunctionCall(id) == [type |-> "FunctionCall", id |-> id]

IpcTask == [type |-> "IPC", id |-> IpcSource]

Syscalls ==
    {[class |-> "YIELD"], [class |-> "MEMOP"]}
    \cup [class : {"SUBSCRIBE"}, driver_number : DriverNums,
          subdriver_number : SubNums, callback_null : BOOLEAN]
    \cup [class : {"COMMAND"}, driver_number : DriverNums, subdriver_number : SubNums]
    \cup [class : {"ALLOW"}, driver_number : DriverNums, subdriver_number : SubNums,
          slice_valid : BOOLEAN]

NoSyscall == [class |-> "None"]

\* What a driver operation or the memop handler may hand back.
DriverReturnCodes == {"SUCCESS", "FAIL"}

\* The errors a platform's filter_syscall may deny a syscall with.
FilterErrors == {"EBUSY"}

\* The AppId of the loaded process, and the AppIds a policy may name.
TheAppId == [index |-> 0, id |-> 0]

AppIds == [index : {0, NUM_PROCS}, id : {0, 1}]

\* The process table the kernel loop runs on: slot 0 holds the loaded process.
LoadedProcesses == [i \in 0 .. NUM_PROCS - 1 |-> IF i = 0 THEN Some(TheAppId) ELSE NoneOpt]

VARIABLES
    pc,                 \* where the kernel thread is
    panic_msg,          \* the panic that stopped the kernel, or None
    ipc,                \* whether kernel_loop was given an IPC module
    work,               \* Kernel.work
    processes,          \* Kernel.processes: each slot empty or holding a process's AppId
    process_identifier_max, \* Kernel.process_identifier_max
    grant_counter,      \* Kernel.grant_counter
    grants_finalized,   \* Kernel.grants_finalized
    api_call,           \* the last call made on the Kernel during board setup
    identifiers,        \* what create_process_identifier has returned, in order
    finalized_counts,   \* the counts get_grant_count_and_finalize has returned
    in_flight,          \* the kernel thread's call on the work counter between its get and its set
    work_calls,         \* the increments and decrements of the work counter completed so far
    state,              \* the process's State
    tasks,              \* the process's task queue
    syscall_return,     \* the return value waiting in the saved registers
    retval_writes,      \* set_syscall_return_value calls since the last syscall fired
    callbacks,          \* the callback ids the driver capsules hold a Callback for
    cleared,            \* the callback ids last subscribed to a driver with a null pointer
    previous_arm,       \* the arm of do_process's loop that sent it round: "YIELD", "Fault", else None
    pending_interrupts, \* chip.has_pending_interrupts()
    deferred_calls,     \* DynamicDeferredCall::global_instance_calls_pending()
    mpu_enabled,
    mpu_config,         \* the process whose regions setup_mpu last wrote to the MPU, if any
    timer_armed,
    timer_expired,      \* scheduler_timer.has_expired()
    timer_remaining,    \* scheduler_timer.get_remaining_us()
    watchdog_suspended,
    timeslice_us,       \* do_process's argument
    next_appid,         \* the AppId next() named, while do_process runs on its process
    return_reason,      \* do_process's local, then its result
    time_executed_us,   \* do_process's result
    remaining_at_exit,  \* what get_remaining_us() gave when that was worked out
    syscall,            \* the syscall being handled
    filter_verdict,     \* what the platform's filter_syscall says of it
    invoked,            \* the operations invoked so far in handling it, in order
    removed             \* the pending callbacks its handling took off the queue

vars == <<pc, panic_msg, ipc, work, processes, process_identifier_max, grant_counter,
          grants_finalized, api_call, identifiers, finalized_counts, in_flight, work_calls,
          state, tasks, syscall_return, retval_writes,
          callbacks, cleared, previous_arm, pending_interrupts, deferred_calls, mpu_enabled, mpu_config, timer_armed,
          timer_expired, timer_remaining, watchdog_suspended, timeslice_us, next_appid,
          return_reason, time_executed_us, remaining_at_exit, syscall,
          filter_verdict, invoked, removed>>

kernel_vars == <<work>>
registry_vars == <<processes, process_identifier_max, grant_counter, grants_finalized,
                   api_call, identifiers, finalized_counts, in_flight, work_calls>>
process_vars == <<state, tasks, syscall_return, retval_writes>>
chip_vars == <<pending_interrupts, deferred_calls, mpu_enabled, mpu_config,
              watchdog_suspended>>
timer_vars == <<timer_armed, timer_expired, timer_remaining>>
handler_vars == <<syscall, filter_verdict, invoked, removed>>
result_vars == <<time_executed_us, remaining_at_exit>>
call_vars == <<timeslice_us, next_appid, return_reason, result_vars, handler_vars>>

Init ==
    /\ pc = "outer"
    /\ panic_msg = None
    /\ ipc \in BOOLEAN
    /\ work = U32Of(1)
    /\ processes = LoadedProcesses
    /\ process_identifier_max = 1
    /\ grant_counter = 1
    /\ grants_finalized = TRUE
    /\ api_call = [op |-> "kernel_loop"]
    /\ identifiers = <<0>>
    /\ finalized_counts = {1}
    /\ in_flight = NoneOpt
    /\ work_calls = [inc |-> 0, dec |-> 0]
    /\ state = "Unstarted"
    /\ tasks = <<FunctionCall(KernelSource)>>
    /\ syscall_return = None
    /\ retval_writes = 0
    /\ callbacks = {}
    /\ cleared = {}
    /\ previous_arm = None
    /\ pending_interrupts = FALSE
    /\ deferred_calls = FALSE
    /\ mpu_enabled = FALSE
    /\ mpu_config = NoneOpt
    /\ timer_armed = FALSE
    /\ timer_expired = FALSE
    /\ timer_remaining = U32Of(0)
    /\ watchdog_suspended = FALSE
    /\ timeslice_us = NoneOpt
    /\ next_appid = NoneOpt
    /\ return_reason = None
    /\ time_executed_us = NoneOpt
    /\ remaining_at_exit = NoneOpt
    /\ syscall = NoSyscall
    /\ filter_verdict = "Ok"
    /\ invoked = <<>>
    /\ removed = 0

\* A board with an empty process table (NUM_PROCS = 0): nothing is loaded and
\* nothing is outstanding.
InitNoProcesses ==
    /\ pc = "outer"
    /\ panic_msg = None
    /\ ipc \in BOOLEAN
    /\ work = U32Of(0)
    /\ processes = <<>>
    /\ process_identifier_max = 0
    /\ grant_counter = 1
    /\ grants_finalized = FALSE
    /\ api_call = [op |-> "kernel_loop"]
    /\ identifiers = <<>>
    /\ finalized_counts = {}
    /\ in_flight = NoneOpt
    /\ work_calls = [inc |-> 0, dec |-> 0]
    /\ state = "Unstarted"
    /\ tasks = <<>>
    /\ syscall_return = None
    /\ retval_writes = 0
    /\ callbacks = {}
    /\ cleared = {}
    /\ previous_arm = None
    /\ pending_interrupts = FALSE
    /\ deferred_calls = FALSE
    /\ mpu_enabled = FALSE
    /\ mpu_config = NoneOpt
    /\ timer_armed = FALSE
    /\ timer_expired = FALSE
    /\ timer_remaining = U32Of(0)
    /\ watchdog_suspended = FALSE
    /\ timeslice_us = NoneOpt
    /\ next_appid = NoneOpt
    /\ return_reason = None
    /\ time_executed_us = NoneOpt
    /\ remaining_at_exit = NoneOpt
    /\ syscall = NoSyscall
    /\ filter_verdict = "Ok"
    /\ invoked = <<>>
    /\ removed = 0


(***************************************************************************)
(* The work counter, Kernel.work: a Cell<usize>, 32 bits wide on the       *)
(* board, which a release build lets wrap.                                 *)
(***************************************************************************)
increment_work(w) == U32WrappingAdd(w, U32Of(1))

decrement_work(w) == U32WrappingSub(w, U32Of(1))

\* The counter w after n increments (n >= 0) or -n decrements (n < 0).
WorkAfter(w, n) ==
    IF n >= 0 THEN U32WrappingAdd(w, U32Of(n)) ELSE U32WrappingSub(w, U32Of(-n))

(***************************************************************************)
(* The process (process::ProcessType).                                     *)
(***************************************************************************)
\* What a process in state s adds to the work counter.
RunningWork(s) == IF s = "Running" THEN 1 ELSE 0

\* The process moved to state s with the work counter left as given.
UpdateStateUncounted(s, w) ==
    /\ state' = s
    /\ work' = w

\* Move the process to state s, keeping the work counter's count of Running
\* processes; w is the work counter to start from.
UpdateState(s, w) ==
    /\ state' = s
    /\ work' = WorkAfter(w, RunningWork(s) - RunningWork(state))

set_syscall_return_value(v) ==
    /\ syscall_return' = v
    /\ retval_writes' = retval_writes + 1

\* The queue q without the pending callbacks of identity id.
remove_pending_callbacks(q, id) ==
    SelectSeq(q, LAMBDA t : ~(t.type = "FunctionCall" /\ t.id = id))

\* The queue q after an attempt to queue task t: a full queue drops it.
enqueue_task(q, t) == IF Len(q) < MaxTasks THEN Append(q, t) ELSE q

(***************************************************************************)
(* Driver capsules.  What capsule code may do to the kernel when it runs   *)
(* (in a driver operation or in an interrupt bottom half): nothing, ask    *)
(* for a deferred call, schedule a callback it holds, or queue an IPC      *)
(* notification.                                                           *)
(***************************************************************************)
CapsuleEffects(held) ==
    [kind : {"none", "deferred", "ipc"}, id : {KernelSource}]
    \cup [kind : {"schedule"}, id : held]

\* The task queue after capsule effect e.
EffectTasks(q, e) ==
    CASE e.kind = "schedule" -> enqueue_task(q, FunctionCall(e.id))
      [] e.kind = "ipc" -> enqueue_task(q, IpcTask)
      [] OTHER -> q

\* Capsule effect e applied to the queue q, the work counter w and the
\* deferred-call flag.
ApplyEffect(q, w, e) ==
    /\ tasks' = EffectTasks(q, e)
    /\ work' = WorkAfter(w, Len(EffectTasks(q, e)) - Len(q))
    /\ deferred_calls' = (deferred_calls \/ e.kind = "deferred")

(***************************************************************************)
(* The scheduler timer.                                                    *)
(***************************************************************************)
\* A dummy timer with no time remaining.
DummyRemainingNothing == U32Of(0)

\* The dummy timer `()` never expires and reports an unbounded remaining time.
DummyRemaining == U32_MAX

has_expired == timer_expired

get_remaining_us == timer_remaining

\* The hardware timer counts down while do_process runs with a timeslice;
\* once it has expired its reading may be anything.
TimerAdvance ==
    /\ pc \in {"head", "mpu_setup", "mpu_on", "user", "syscall", "subscribe", "handled", "exit"}
    /\ timeslice_us # NoneOpt
    /\ ~timer_expired
    /\ \/ /\ timer_remaining' \in {r \in TimerReadings : U32Lt(r, timer_remaining)}
          /\ timer_expired' = FALSE
       \/ /\ timer_remaining' \in SkewedReadings
          /\ timer_expired' = TRUE
    /\ UNCHANGED <<pc, panic_msg, ipc, registry_vars, kernel_vars, process_vars, callbacks, cleared, previous_arm, chip_vars,
                   timer_armed, call_vars>>

\* An interrupt line is raised.
InterruptArrives ==
    /\ pc # "panic"
    /\ ~pending_interrupts
    /\ pending_interrupts' = TRUE
    /\ UNCHANGED <<pc, panic_msg, ipc, registry_vars, kernel_vars, process_vars, callbacks, cleared, previous_arm,
                   deferred_calls, mpu_enabled, mpu_config, watchdog_suspended, timer_vars,
                   call_vars>>

(***************************************************************************)
(* The scheduling policy's default methods.                                *)
(***************************************************************************)
processes_blocked == work = U32Of(0)

\* The check that looks at the work counter only.
break_for_kernel_tasks_only_blocked == processes_blocked

\* The check without kernel.processes_blocked().
break_for_kernel_tasks_but_blocked == pending_interrupts \/ deferred_calls

break_for_kernel_tasks == pending_interrupts \/ deferred_calls \/ processes_blocked

\* The policy that also leaves do_process when a task is queued for the process.
leave_do_process_for_tasks == pending_interrupts \/ deferred_calls \/ tasks # <<>>

leave_do_process == pending_interrupts \/ deferred_calls

\* AppId's ==: two AppIds are equal when their identifiers are.
AppIdEq(a, b) == a.id = b.id

\* The lookup that passes over a stopped process.
process_map_or_not_stopped(appid) ==
    /\ appid.index \in DOMAIN processes
    /\ processes[appid.index] # NoneOpt
    /\ Unwrap(processes[appid.index]).id = appid.id
    /\ state \notin {"StoppedRunning", "StoppedYielded", "StoppedFaulted"}

\* The lookup without the comparison of identifiers: any occupant matches.
process_map_or_any_occupant(appid) ==
    /\ appid.index \in DOMAIN processes
    /\ processes[appid.index] # NoneOpt

\* process_map_or runs its closure: there is a slot at the index, a process
\* in the slot, and the process's AppId equals the one given.
process_map_or(appid) ==
    /\ appid.index \in DOMAIN processes
    /\ processes[appid.index] # NoneOpt
    /\ AppIdEq(Unwrap(processes[appid.index]), appid)

\* process_map_or(default, appid, |process| process.appid()).
process_map_or_appid(default, appid) ==
    IF process_map_or(appid) THEN Unwrap(processes[appid.index]) ELSE default

appid_is_valid(appid) ==
    IF appid.index \in DOMAIN processes
    THEN IF processes[appid.index] # NoneOpt
         THEN Unwrap(processes[appid.index]).id = appid.id
         ELSE FALSE
    ELSE FALSE

\* There is a process for capsules to queue tasks for and to manage.
ProcessLoaded == process_map_or(TheAppId)

Panic(msg) ==
    /\ pc' = "panic"
    /\ panic_msg' = msg

(***************************************************************************)
(* kernel_loop.                                                            *)
(***************************************************************************)
\* Process management a bottom half may ask for (a process console stopping
\* or resuming the process, hardfault_all_apps).
Stop ==
    CASE state = "Running" -> UpdateState("StoppedRunning", work)
      [] state = "Yielded" -> UpdateState("StoppedYielded", work)
      [] OTHER -> UNCHANGED <<state, work>>

Resume ==
    CASE state = "StoppedRunning" -> UpdateState("Running", work)
      [] state = "StoppedYielded" -> UpdateState("Yielded", work)
      [] OTHER -> UNCHANGED <<state, work>>

hardfault_all_apps == UpdateState("Fault", work)

\* execute_kernel_work: service the pending interrupts, then run the deferred
\* calls until they are drained or a new interrupt arrives.
ExecuteKernelWork ==
    /\ pc = "outer"
    /\ pc' = "inner"
    /\ \/ /\ ~(pending_interrupts \/ deferred_calls)
          /\ UNCHANGED <<pending_interrupts, deferred_calls, state, tasks, work>>
       \/ /\ pending_interrupts \/ deferred_calls
          /\ \E e \in CapsuleEffects(callbacks) :
                /\ e.kind \in {"schedule", "ipc"} => ProcessLoaded
                /\ tasks' = EffectTasks(tasks, e)
                /\ work' = WorkAfter(work, Len(EffectTasks(tasks, e)) - Len(tasks))
                /\ \/ pending_interrupts' = FALSE /\ deferred_calls' = (e.kind = "deferred")
                   \/ pending_interrupts' = TRUE /\ deferred_calls' \in BOOLEAN
          /\ UNCHANGED state
       \/ /\ pending_interrupts \/ deferred_calls
          /\ pending_interrupts' = FALSE
          /\ deferred_calls' = FALSE
          /\ ProcessLoaded
          /\ \/ Stop
             \/ Resume
             \/ hardfault_all_apps
          /\ UNCHANGED tasks
    /\ UNCHANGED <<panic_msg, ipc, registry_vars, syscall_return, retval_writes, callbacks, cleared, previous_arm, mpu_enabled, mpu_config,
                   watchdog_suspended, timer_vars, call_vars>>

\* The inner loop finds kernel tasks to do and leaves for the sleep gate.
BreakForKernelTasks ==
    /\ pc = "inner"
    /\ break_for_kernel_tasks
    /\ pc' = "gate"
    /\ UNCHANGED <<panic_msg, ipc, registry_vars, kernel_vars, process_vars, callbacks, cleared, previous_arm, chip_vars,
                   timer_vars, call_vars>>

\* The inner loop goes on whatever break_for_kernel_tasks says.
NoBreakUnchecked ==
    /\ pc = "inner"
    /\ pc' = "next"
    /\ UNCHANGED <<panic_msg, ipc, registry_vars, kernel_vars, process_vars, callbacks,
                   cleared, previous_arm, chip_vars, timer_vars, call_vars>>

\* The inner loop finds no kernel task to do and goes on to ask the policy.
NoBreak ==
    /\ pc = "inner"
    /\ ~break_for_kernel_tasks
    /\ pc' = "next"
    /\ UNCHANGED <<panic_msg, ipc, registry_vars, kernel_vars, process_vars, callbacks,
                   cleared, previous_arm, chip_vars, timer_vars, call_vars>>

\* The policy's next() names no process or one that process_map_or does not
\* find: the inner loop goes round.
NextNoProcess ==
    /\ pc = "next"
    /\ \E appid \in {NoneOpt} \cup {Some(a) : a \in AppIds} :
          IF appid = NoneOpt THEN TRUE ELSE ~process_map_or(Unwrap(appid))
    /\ pc' = "inner"
    /\ UNCHANGED <<panic_msg, ipc, registry_vars, kernel_vars, process_vars, callbacks,
                   cleared, previous_arm, chip_vars, timer_vars, call_vars>>

\* do_process entered whatever the lookup of the AppId says.
NextDoProcessUnmatched ==
    /\ pc = "next"
    /\ \E appid \in AppIds, timeslice \in {NoneOpt} \cup {Some(t) : t \in Timeslices} :
          /\ timeslice_us' = timeslice
          /\ next_appid' = Some(appid)
          /\ timer_remaining' = IF timeslice = NoneOpt THEN DummyRemaining
                                ELSE Unwrap(timeslice)
    /\ timer_expired' = FALSE
    /\ return_reason' = "NoWorkLeft"
    /\ pc' = "head"
    /\ UNCHANGED <<panic_msg, ipc, registry_vars, kernel_vars, process_vars, callbacks, cleared, previous_arm, chip_vars,
                   timer_armed, result_vars, handler_vars>>

\* The policy's next() names the process: do_process is entered with the
\* timeslice it gave, on the dummy timer without one, on the chip's timer
\* started with it.
NextDoProcess ==
    /\ pc = "next"
    /\ \E appid \in AppIds, timeslice \in {NoneOpt} \cup {Some(t) : t \in Timeslices} :
          /\ process_map_or(appid)
          /\ timeslice_us' = timeslice
          /\ next_appid' = Some(appid)
          /\ timer_remaining' = IF timeslice = NoneOpt THEN DummyRemaining
                                ELSE Unwrap(timeslice)
    /\ timer_expired' = FALSE
    /\ return_reason' = "NoWorkLeft"
    /\ pc' = "head"
    /\ UNCHANGED <<panic_msg, ipc, registry_vars, kernel_vars, process_vars, callbacks, cleared, previous_arm, chip_vars,
                   timer_armed, result_vars, handler_vars>>

\* do_process's results go to the policy's result().
Result ==
    /\ pc = "result"
    /\ pc' = "inner"
    /\ return_reason' = None
    /\ time_executed_us' = NoneOpt
    /\ remaining_at_exit' = NoneOpt
    /\ timeslice_us' = NoneOpt
    /\ next_appid' = NoneOpt
    /\ UNCHANGED <<panic_msg, ipc, registry_vars, kernel_vars, process_vars, callbacks, cleared, previous_arm, chip_vars,
                   timer_vars, handler_vars>>

\* The gate that does not look at the pending interrupts.
SleepGateInterruptsUnchecked ==
    /\ pc = "gate"
    /\ IF ~deferred_calls /\ processes_blocked
       THEN pc' = "sleep" /\ watchdog_suspended' = TRUE
       ELSE pc' = "outer" /\ UNCHANGED watchdog_suspended
    /\ UNCHANGED <<panic_msg, ipc, registry_vars, kernel_vars, process_vars, callbacks, cleared, previous_arm,
                   pending_interrupts, deferred_calls, mpu_enabled, mpu_config, timer_vars,
                   call_vars>>

\* The sleep gate: inside chip.atomic, sleep only when nothing is left to do.
SleepGate ==
    /\ pc = "gate"
    /\ IF ~pending_interrupts /\ ~deferred_calls /\ processes_blocked
       THEN pc' = "sleep" /\ watchdog_suspended' = TRUE
       ELSE pc' = "outer" /\ UNCHANGED watchdog_suspended
    /\ UNCHANGED <<panic_msg, ipc, registry_vars, kernel_vars, process_vars, callbacks, cleared, previous_arm,
                   pending_interrupts, deferred_calls, mpu_enabled, mpu_config, timer_vars,
                   call_vars>>

\* chip.sleep() returns on an interrupt; the watchdog is resumed.
Wake ==
    /\ pc = "sleep"
    /\ pending_interrupts
    /\ pc' = "outer"
    /\ watchdog_suspended' = FALSE
    /\ UNCHANGED <<panic_msg, ipc, registry_vars, kernel_vars, process_vars, callbacks, cleared, previous_arm,
                   pending_interrupts, deferred_calls, mpu_enabled, mpu_config, timer_vars,
                   call_vars>>


(***************************************************************************)
(* do_process: the head of the loop.                                       *)
(***************************************************************************)
\* The threshold compared with < for <=.
TimesliceCheckExclusive ==
    has_expired \/ U32Lt(get_remaining_us, U32Of(MIN_QUANTA_THRESHOLD_US))

\* The loop that never looks at the timer.
TimesliceCheckNever == FALSE

TimesliceCheck ==
    has_expired \/ U32Le(get_remaining_us, U32Of(MIN_QUANTA_THRESHOLD_US))

\* break out of the loop with the given reason.
Break(reason) ==
    /\ return_reason' = reason
    /\ pc' = "exit"

HeadTimesliceExpired ==
    /\ pc = "head"
    /\ TimesliceCheck
    /\ Break("TimesliceExpired")
    /\ previous_arm' = None
    /\ UNCHANGED <<panic_msg, ipc, registry_vars, kernel_vars, process_vars, callbacks, cleared, chip_vars,
                   timer_vars, timeslice_us, next_appid, result_vars, handler_vars>>

\* leave_do_process asked before the timer is looked at.
HeadKernelPreemptionFirst ==
    /\ pc = "head"
    /\ leave_do_process
    /\ Break("KernelPreemption")
    /\ previous_arm' = None
    /\ UNCHANGED <<panic_msg, ipc, registry_vars, kernel_vars, process_vars, callbacks, cleared,
                   chip_vars, timer_vars, timeslice_us, next_appid, result_vars, handler_vars>>

HeadKernelPreemption ==
    /\ pc = "head"
    /\ ~TimesliceCheck
    /\ leave_do_process
    /\ Break("KernelPreemption")
    /\ previous_arm' = None
    /\ UNCHANGED <<panic_msg, ipc, registry_vars, kernel_vars, process_vars, callbacks, cleared, chip_vars,
                   timer_vars, timeslice_us, next_appid, result_vars, handler_vars>>

\* The checks at the head of the loop let the iteration reach the match on
\* the process state.
ReachesDispatch ==
    /\ pc = "head"
    /\ ~TimesliceCheck
    /\ ~leave_do_process

\* State::Running: the process's regions are written to the MPU.
SetupMpu ==
    /\ ReachesDispatch
    /\ state = "Running"
    /\ mpu_config' = Some(TheAppId)
    /\ previous_arm' = None
    /\ pc' = "mpu_setup"
    /\ UNCHANGED <<panic_msg, ipc, registry_vars, kernel_vars, process_vars, callbacks, cleared,
                   pending_interrupts, deferred_calls, mpu_enabled, watchdog_suspended,
                   timer_vars, call_vars>>

\* chip.mpu().enable_mpu().
EnableMpu ==
    /\ pc = "mpu_setup"
    /\ mpu_enabled' = TRUE
    /\ pc' = "mpu_on"
    /\ UNCHANGED <<panic_msg, ipc, registry_vars, kernel_vars, process_vars, callbacks, cleared,
                   previous_arm, pending_interrupts, deferred_calls, mpu_config,
                   watchdog_suspended, timer_vars, call_vars>>

\* The timer is armed and the process switched to.  The process takes the
\* return value left in its registers.
SwitchTo ==
    /\ pc = "mpu_on"
    /\ timer_armed' = TRUE
    /\ syscall_return' = None
    /\ pc' = "user"
    /\ UNCHANGED <<panic_msg, ipc, registry_vars, kernel_vars, state, tasks, retval_writes, callbacks,
                   cleared, previous_arm, chip_vars, timer_expired, timer_remaining, call_vars>>

\* State::Yielded | State::Unstarted with an empty queue: break (NoWorkLeft).
DequeueNone ==
    /\ ReachesDispatch
    /\ state \in {"Yielded", "Unstarted"}
    /\ tasks = <<>>
    /\ pc' = "exit"
    /\ previous_arm' = None
    /\ UNCHANGED <<panic_msg, ipc, registry_vars, kernel_vars, process_vars, callbacks, cleared, chip_vars,
                   timer_vars, call_vars>>

\* A FunctionCall is dequeued and dropped: the process stays as it was.
DequeueFunctionCallNotInstalled ==
    /\ ReachesDispatch
    /\ state \in {"Yielded", "Unstarted"}
    /\ tasks # <<>>
    /\ Head(tasks).type = "FunctionCall"
    /\ tasks' = Tail(tasks)
    /\ work' = decrement_work(work)
    /\ previous_arm' = None
    /\ UNCHANGED <<pc, panic_msg, ipc, registry_vars, state, syscall_return, retval_writes,
                   callbacks, cleared, chip_vars, timer_vars, call_vars>>

\* A FunctionCall is dequeued and installed: set_process_function makes the
\* process Running.
DequeueFunctionCall ==
    /\ ReachesDispatch
    /\ state \in {"Yielded", "Unstarted"}
    /\ tasks # <<>>
    /\ Head(tasks).type = "FunctionCall"
    /\ tasks' = Tail(tasks)
    /\ UpdateState("Running", decrement_work(work))
    /\ previous_arm' = None
    /\ UNCHANGED <<pc, panic_msg, ipc, registry_vars, syscall_return, retval_writes, callbacks, cleared,
                   chip_vars, timer_vars, call_vars>>

\* An IPC task is dequeued and the loop goes on, IPC wired or not.
DequeueIpcUnasserted ==
    /\ ReachesDispatch
    /\ state \in {"Yielded", "Unstarted"}
    /\ tasks # <<>>
    /\ Head(tasks).type = "IPC"
    /\ tasks' = Tail(tasks)
    /\ work' = decrement_work(work)
    /\ previous_arm' = None
    /\ UNCHANGED <<pc, panic_msg, ipc, registry_vars, state, syscall_return, retval_writes,
                   callbacks, cleared, chip_vars, timer_vars, call_vars>>

\* An IPC task is dequeued: with IPC wired its callback is scheduled,
\* without it the kernel stops on the consistency assertion.
DequeueIpc ==
    /\ ReachesDispatch
    /\ state \in {"Yielded", "Unstarted"}
    /\ tasks # <<>>
    /\ Head(tasks).type = "IPC"
    /\ tasks' = Tail(tasks)
    /\ work' = decrement_work(work)
    /\ IF ipc
       THEN UNCHANGED <<pc, panic_msg>>
       ELSE Panic("Kernel consistency error: IPC Task with no IPC")
    /\ previous_arm' = None
    /\ UNCHANGED <<ipc, registry_vars, state, syscall_return, retval_writes, callbacks, cleared, chip_vars,
                   timer_vars, call_vars>>

\* The Fault arm taken for the Running one: the faulted process is run.
DispatchFaultRuns ==
    /\ ReachesDispatch
    /\ state = "Fault"
    /\ mpu_enabled' = TRUE
    /\ mpu_config' = Some(TheAppId)
    /\ timer_armed' = TRUE
    /\ syscall_return' = None
    /\ pc' = "user"
    /\ previous_arm' = None
    /\ UNCHANGED <<panic_msg, ipc, registry_vars, kernel_vars, state, tasks, retval_writes, callbacks, cleared,
                   pending_interrupts, deferred_calls, watchdog_suspended,
                   timer_expired, timer_remaining, call_vars>>

\* State::Fault: we should never be scheduling a process in fault.
DispatchFault ==
    /\ ReachesDispatch
    /\ state = "Fault"
    /\ Panic("Attempted to schedule a faulty process")
    /\ UNCHANGED <<ipc, registry_vars, kernel_vars, process_vars, callbacks, cleared, previous_arm, chip_vars, timer_vars,
                   call_vars>>

\* The StoppedFaulted arm reporting what the other Stopped arms report.
DispatchStoppedOneReason ==
    /\ ReachesDispatch
    /\ state \in {"StoppedRunning", "StoppedYielded", "StoppedFaulted"}
    /\ Break("Stopped")
    /\ previous_arm' = None
    /\ UNCHANGED <<panic_msg, ipc, registry_vars, kernel_vars, process_vars, callbacks, cleared, chip_vars,
                   timer_vars, timeslice_us, next_appid, result_vars, handler_vars>>

\* The Stopped* arms that break and leave the reason as it was.
DispatchStoppedNoReason ==
    /\ ReachesDispatch
    /\ state \in {"StoppedRunning", "StoppedYielded", "StoppedFaulted"}
    /\ pc' = "exit"
    /\ previous_arm' = None
    /\ UNCHANGED <<panic_msg, ipc, registry_vars, kernel_vars, process_vars, callbacks, cleared,
                   chip_vars, timer_vars, call_vars>>

DispatchStopped ==
    /\ ReachesDispatch
    /\ \/ state \in {"StoppedRunning", "StoppedYielded"} /\ Break("Stopped")
       \/ state = "StoppedFaulted" /\ Break("StoppedFaulted")
    /\ previous_arm' = None
    /\ UNCHANGED <<panic_msg, ipc, registry_vars, kernel_vars, process_vars, callbacks, cleared, chip_vars,
                   timer_vars, timeslice_us, next_appid, result_vars, handler_vars>>

(***************************************************************************)
(* do_process: back from switch_to.  The timer is disarmed and the MPU     *)
(* disabled before the reason is looked at.                                *)
(***************************************************************************)
\* Back from switch_to with the MPU left enabled.
BackInKernelMpuLeftOn ==
    /\ pc = "user"
    /\ timer_armed' = FALSE
    /\ UNCHANGED mpu_enabled

BackInKernel ==
    /\ pc = "user"
    /\ timer_armed' = FALSE
    /\ mpu_enabled' = FALSE

\* The fault that leaves the process in the state it had.
set_fault_state_skipped == UNCHANGED <<state, work>>

set_fault_state == UpdateState("Fault", work)

\* Some(ContextSwitchReason::Fault), or None: the process is put in the
\* fault state and the loop goes on.
SwitchFault ==
    /\ BackInKernel
    /\ set_fault_state
    /\ pc' = "head"
    /\ previous_arm' = "Fault"
    /\ UNCHANGED <<panic_msg, ipc, registry_vars, tasks, syscall_return, retval_writes, callbacks, cleared,
                   pending_interrupts, deferred_calls, mpu_config, watchdog_suspended,
                   timer_expired, timer_remaining, call_vars>>

\* Some(ContextSwitchReason::SyscallFired { syscall }).
SwitchSyscallFired ==
    /\ BackInKernel
    /\ syscall' \in Syscalls
    /\ filter_verdict' \in IF syscall'.class = "YIELD" THEN {"Ok"}
                           ELSE {"Ok"} \cup FilterErrors
    /\ retval_writes' = 0
    /\ pc' = "syscall"
    /\ UNCHANGED <<panic_msg, ipc, registry_vars, kernel_vars, state, tasks, syscall_return, callbacks, cleared, previous_arm,
                   pending_interrupts, deferred_calls, mpu_config, watchdog_suspended,
                   timer_expired, timer_remaining, timeslice_us, next_appid, return_reason,
                   result_vars, invoked, removed>>

\* Some(ContextSwitchReason::Interrupted): an interrupt line, or the armed
\* timer running out, took the processor from the process.
SwitchInterrupted ==
    /\ BackInKernel
    /\ pending_interrupts \/ has_expired
    /\ IF has_expired
       THEN Break("TimesliceExpired")
       ELSE pc' = "head" /\ UNCHANGED return_reason
    /\ UNCHANGED <<panic_msg, ipc, registry_vars, kernel_vars, process_vars, callbacks, cleared, previous_arm,
                   pending_interrupts, deferred_calls, mpu_config, watchdog_suspended,
                   timer_expired, timer_remaining, timeslice_us, next_appid, result_vars,
                   handler_vars>>


(***************************************************************************)
(* do_process: handling the syscall.                                       *)
(***************************************************************************)
\* The handling of the syscall is over: the loop goes round.
Handled ==
    /\ pc' = "handled"
    /\ UNCHANGED <<panic_msg, ipc, registry_vars, syscall, filter_verdict, mpu_enabled, mpu_config, watchdog_suspended,
                   pending_interrupts, timer_vars, timeslice_us, next_appid, return_reason,
                   result_vars>>

Continue ==
    /\ pc = "handled"
    /\ pc' = "head"
    /\ syscall' = NoSyscall
    /\ filter_verdict' = "Ok"
    /\ invoked' = <<>>
    /\ removed' = 0
    /\ UNCHANGED <<panic_msg, ipc, registry_vars, kernel_vars, process_vars, callbacks, cleared, previous_arm, chip_vars,
                   timer_vars, timeslice_us, next_appid, return_reason, result_vars>>

\* The denial without the continue: the error is written and the syscall is
\* handled all the same.
FilterDeniesNoContinue ==
    /\ pc = "syscall"
    /\ syscall.class # "YIELD"
    /\ filter_verdict # "Ok"
    /\ set_syscall_return_value(filter_verdict)
    /\ invoked' = <<"filter_syscall">>
    /\ filter_verdict' = "Ok"
    /\ UNCHANGED <<pc, panic_msg, ipc, registry_vars, syscall, work, state, tasks, callbacks, cleared, previous_arm,
                   chip_vars, timer_vars, timeslice_us, next_appid, return_reason, result_vars,
                   removed>>

\* The platform's filter_syscall denies a syscall other than YIELD: its error
\* is the return value, and the loop continues.
FilterDenies ==
    /\ pc = "syscall"
    /\ syscall.class # "YIELD"
    /\ filter_verdict # "Ok"
    /\ set_syscall_return_value(filter_verdict)
    /\ invoked' = <<"filter_syscall">>
    /\ Handled
    /\ UNCHANGED <<work, state, tasks, callbacks, cleared, previous_arm, deferred_calls, removed>>

\* The memop result computed and dropped.
HandleMemopNoReturn ==
    /\ pc = "syscall"
    /\ syscall.class = "MEMOP"
    /\ filter_verdict = "Ok"
    /\ invoked' = <<"filter_syscall", "memop">>
    /\ Handled
    /\ UNCHANGED <<work, state, tasks, syscall_return, retval_writes, callbacks, cleared, previous_arm,
                   deferred_calls, removed>>

HandleMemop ==
    /\ pc = "syscall"
    /\ syscall.class = "MEMOP"
    /\ filter_verdict = "Ok"
    /\ \E res \in DriverReturnCodes : set_syscall_return_value(res)
    /\ invoked' = <<"filter_syscall", "memop">>
    /\ Handled
    /\ UNCHANGED <<work, state, tasks, callbacks, cleared, previous_arm, deferred_calls, removed>>

\* The yield that leaves the process as it was.
set_yielded_state_skipped == UNCHANGED <<state, work>>

set_yielded_state ==
    IF state = "Running"
    THEN UpdateState("Yielded", work)
    ELSE UNCHANGED <<state, work>>

HandleYield ==
    /\ pc = "syscall"
    /\ syscall.class = "YIELD"
    /\ set_yielded_state
    /\ invoked' = <<"set_yielded_state">>
    /\ Handled
    /\ previous_arm' = "YIELD"
    /\ UNCHANGED <<tasks, syscall_return, retval_writes, callbacks, cleared, deferred_calls,
                   removed>>

CallbackIdOf(sc) == <<sc.driver_number, sc.subdriver_number>>

\* SUBSCRIBE without the call to remove_pending_callbacks.
SubscribeNoRemove ==
    /\ pc = "syscall"
    /\ syscall.class = "SUBSCRIBE"
    /\ filter_verdict = "Ok"
    /\ removed' = 0
    /\ invoked' = <<"filter_syscall">>
    /\ pc' = "subscribe"
    /\ UNCHANGED <<panic_msg, ipc, registry_vars, work, state, tasks, syscall_return, retval_writes,
                   callbacks, cleared, previous_arm, chip_vars, timer_vars, timeslice_us, next_appid, return_reason,
                   result_vars, syscall, filter_verdict>>

\* SUBSCRIBE, first half: the pending callbacks of the identity are removed.
SubscribeRemove ==
    /\ pc = "syscall"
    /\ syscall.class = "SUBSCRIBE"
    /\ filter_verdict = "Ok"
    /\ tasks' = remove_pending_callbacks(tasks, CallbackIdOf(syscall))
    /\ work' = WorkAfter(work, Len(remove_pending_callbacks(tasks, CallbackIdOf(syscall)))
                               - Len(tasks))
    /\ removed' = Len(tasks) - Len(remove_pending_callbacks(tasks, CallbackIdOf(syscall)))
    /\ invoked' = <<"filter_syscall", "remove_pending_callbacks">>
    /\ pc' = "subscribe"
    /\ UNCHANGED <<panic_msg, ipc, registry_vars, state, syscall_return, retval_writes, callbacks, cleared, previous_arm,
                   chip_vars, timer_vars, timeslice_us, next_appid, return_reason,
                   result_vars, syscall, filter_verdict>>

\* A Callback made of the pointer whatever it is.
CallbackUnchecked(sc) == Some(CallbackIdOf(sc))

\* NonNull::new(callback_ptr).map(..): no Callback for a null pointer.
Callback(sc) == IF sc.callback_null THEN NoneOpt ELSE Some(CallbackIdOf(sc))

\* The callbacks the driver holds after subscribe(sub, callback, appid):
\* without a callback the subscription is cleared, with one it is replaced.
DriverSubscribe(id, callback) ==
    IF callback = NoneOpt THEN callbacks \ {id} ELSE callbacks \cup {id}

\* SUBSCRIBE, second half: the driver is looked up and given the callback.
SubscribeDriver ==
    /\ pc = "subscribe"
    /\ IF with_driver(syscall.driver_number) # None
       THEN /\ callbacks' = DriverSubscribe(CallbackIdOf(syscall), Callback(syscall))
            /\ cleared' = IF syscall.callback_null
                          THEN cleared \cup {CallbackIdOf(syscall)}
                          ELSE cleared \ {CallbackIdOf(syscall)}
            /\ \E e \in CapsuleEffects(DriverSubscribe(CallbackIdOf(syscall),
                                                       Callback(syscall))) :
                  ApplyEffect(tasks, work, e)
            /\ \E res \in DriverReturnCodes : set_syscall_return_value(res)
            /\ invoked' = invoked \o <<"with_driver", "subscribe">>
       ELSE /\ set_syscall_return_value("ENODEVICE")
            /\ invoked' = invoked \o <<"with_driver">>
            /\ UNCHANGED <<callbacks, cleared, tasks, work, deferred_calls>>
    /\ Handled
    /\ UNCHANGED <<state, removed, previous_arm>>

HandleCommand ==
    /\ pc = "syscall"
    /\ syscall.class = "COMMAND"
    /\ filter_verdict = "Ok"
    /\ IF with_driver(syscall.driver_number) # None
       THEN /\ \E e \in CapsuleEffects(callbacks) : ApplyEffect(tasks, work, e)
            /\ \E res \in DriverReturnCodes : set_syscall_return_value(res)
            /\ invoked' = <<"filter_syscall", "with_driver", "command">>
       ELSE /\ set_syscall_return_value("ENODEVICE")
            /\ invoked' = <<"filter_syscall", "with_driver">>
            /\ UNCHANGED <<tasks, work, deferred_calls>>
    /\ Handled
    /\ UNCHANGED <<state, callbacks, cleared, previous_arm, removed>>

\* A process.allow that accepts every slice.
ProcessAllowAccepts(sc) == "Ok"

\* process.allow(allow_address, allow_size): the slice, or the error.
ProcessAllow(sc) == IF sc.slice_valid THEN "Ok" ELSE "EINVAL"

\* ALLOW with the result of process.allow not looked at: the driver gets
\* the slice, valid or not.
HandleAllowUnchecked ==
    /\ pc = "syscall"
    /\ syscall.class = "ALLOW"
    /\ filter_verdict = "Ok"
    /\ IF with_driver(syscall.driver_number) # None
       THEN /\ \E e \in CapsuleEffects(callbacks) : ApplyEffect(tasks, work, e)
            /\ \E res \in DriverReturnCodes : set_syscall_return_value(res)
            /\ invoked' = <<"filter_syscall", "with_driver", "process.allow", "allow">>
       ELSE /\ set_syscall_return_value("ENODEVICE")
            /\ invoked' = <<"filter_syscall", "with_driver">>
            /\ UNCHANGED <<tasks, work, deferred_calls>>
    /\ Handled
    /\ UNCHANGED <<state, callbacks, cleared, previous_arm, removed>>

\* ALLOW with the slice validated before the driver is looked up.
HandleAllowValidatesFirst ==
    /\ pc = "syscall"
    /\ syscall.class = "ALLOW"
    /\ filter_verdict = "Ok"
    /\ IF ProcessAllow(syscall) # "Ok"
       THEN /\ set_syscall_return_value(ProcessAllow(syscall))
            /\ invoked' = <<"filter_syscall", "process.allow">>
            /\ UNCHANGED <<tasks, work, deferred_calls>>
       ELSE IF with_driver(syscall.driver_number) # None
            THEN /\ \E e \in CapsuleEffects(callbacks) : ApplyEffect(tasks, work, e)
                 /\ \E res \in DriverReturnCodes : set_syscall_return_value(res)
                 /\ invoked' = <<"filter_syscall", "process.allow", "with_driver", "allow">>
            ELSE /\ set_syscall_return_value("ENODEVICE")
                 /\ invoked' = <<"filter_syscall", "process.allow", "with_driver">>
                 /\ UNCHANGED <<tasks, work, deferred_calls>>
    /\ Handled
    /\ UNCHANGED <<state, callbacks, cleared, previous_arm, removed>>

HandleAllow ==
    /\ pc = "syscall"
    /\ syscall.class = "ALLOW"
    /\ filter_verdict = "Ok"
    /\ IF with_driver(syscall.driver_number) # None
       THEN IF ProcessAllow(syscall) = "Ok"
            THEN /\ \E e \in CapsuleEffects(callbacks) : ApplyEffect(tasks, work, e)
                 /\ \E res \in DriverReturnCodes : set_syscall_return_value(res)
                 /\ invoked' = <<"filter_syscall", "with_driver", "process.allow", "allow">>
            ELSE /\ set_syscall_return_value(ProcessAllow(syscall))
                 /\ invoked' = <<"filter_syscall", "with_driver", "process.allow">>
                 /\ UNCHANGED <<tasks, work, deferred_calls>>
       ELSE /\ set_syscall_return_value("ENODEVICE")
            /\ invoked' = <<"filter_syscall", "with_driver">>
            /\ UNCHANGED <<tasks, work, deferred_calls>>
    /\ Handled
    /\ UNCHANGED <<state, callbacks, cleared, previous_arm, removed>>

(***************************************************************************)
(* do_process: leaving.                                                    *)
(***************************************************************************)
\* The subtraction without the min around it.
TimeExecutedNoMin(timeslice, remaining) == U32WrappingSub(timeslice, remaining)

\* min is to protect from wrapping.
TimeExecuted(timeslice, remaining) ==
    U32Min(U32WrappingSub(timeslice, remaining), timeslice)

\* The execution time is worked out, the timer reset, the results handed back.
Exit ==
    /\ pc = "exit"
    /\ time_executed_us' = IF timeslice_us = NoneOpt THEN NoneOpt
                           ELSE Some(TimeExecuted(Unwrap(timeslice_us), get_remaining_us))
    /\ remaining_at_exit' = IF timeslice_us = NoneOpt THEN NoneOpt
                            ELSE Some(get_remaining_us)
    /\ timer_expired' = FALSE
    /\ timer_remaining' = U32Of(0)
    /\ pc' = "result"
    /\ UNCHANGED <<panic_msg, ipc, registry_vars, kernel_vars, process_vars, callbacks, cleared, previous_arm, chip_vars,
                   timer_armed, timeslice_us, next_appid, return_reason, handler_vars>>

\* A build with overflow checks stops at the subtraction when the timer
\* reports more than the timeslice.
ExitOverflow ==
    /\ pc = "exit"
    /\ timeslice_us # NoneOpt
    /\ U32Lt(Unwrap(timeslice_us), get_remaining_us)
    /\ Panic("attempt to subtract with overflow")
    /\ UNCHANGED <<ipc, registry_vars, kernel_vars, process_vars, callbacks, cleared, previous_arm, chip_vars, timer_vars,
                   call_vars>>

\* Outside the dispatcher the fault response takes a process found in the
\* fault state: it panics the kernel or stops the process.
FaultResponse ==
    /\ pc \in {"outer", "inner", "gate"}
    /\ state = "Fault"
    /\ \/ Panic("Process had a fault") /\ UNCHANGED <<state, work>>
       \/ UpdateState("StoppedFaulted", work) /\ UNCHANGED <<pc, panic_msg>>
    /\ UNCHANGED <<ipc, registry_vars, tasks, syscall_return, retval_writes, callbacks, cleared, previous_arm, chip_vars,
                   timer_vars, call_vars>>

Next ==
    \/ InterruptArrives
    \/ TimerAdvance
    \/ ExecuteKernelWork
    \/ BreakForKernelTasks
    \/ NoBreak
    \/ NextNoProcess
    \/ NextDoProcess
    \/ Result
    \/ SleepGate
    \/ Wake
    \/ FaultResponse
    \/ HeadTimesliceExpired
    \/ HeadKernelPreemption
    \/ SetupMpu
    \/ EnableMpu
    \/ SwitchTo
    \/ DequeueNone
    \/ DequeueFunctionCall
    \/ DequeueIpc
    \/ DispatchFault
    \/ DispatchStopped
    \/ SwitchFault
    \/ SwitchSyscallFired
    \/ SwitchInterrupted
    \/ FilterDenies
    \/ HandleMemop
    \/ HandleYield
    \/ SubscribeRemove
    \/ SubscribeDriver
    \/ HandleCommand
    \/ HandleAllow
    \/ Continue
    \/ Exit
    \/ ExitOverflow

Spec == Init /\ [][Next]_vars

\* The steps of the kernel thread, user code included: what is left of Next
\* is the environment (interrupt lines, the timer, the fault response).
KernelStep ==
    \/ ExecuteKernelWork
    \/ BreakForKernelTasks
    \/ NoBreak
    \/ NextNoProcess
    \/ NextDoProcess
    \/ Result
    \/ SleepGate
    \/ Wake
    \/ HeadTimesliceExpired
    \/ HeadKernelPreemption
    \/ SetupMpu
    \/ EnableMpu
    \/ SwitchTo
    \/ DequeueNone
    \/ DequeueFunctionCall
    \/ DequeueIpc
    \/ DispatchFault
    \/ DispatchStopped
    \/ SwitchFault
    \/ SwitchSyscallFired
    \/ SwitchInterrupted
    \/ FilterDenies
    \/ HandleMemop
    \/ HandleYield
    \/ SubscribeRemove
    \/ SubscribeDriver
    \/ HandleCommand
    \/ HandleAllow
    \/ Continue
    \/ Exit
    \/ ExitOverflow

\* The board as main.rs starts it: kernel_loop is given no IPC.
InitBoard == Init /\ ~ipc

\* The kernel thread keeps running: a step it can take is taken.
SpecLive == InitBoard /\ [][Next]_vars /\ WF_vars(KernelStep)

\* The kernel thread keeps running and the scheduler timer keeps counting
\* down while do_process runs with a timeslice.
SpecPreemptive ==
    InitBoard /\ [][Next]_vars /\ WF_vars(KernelStep) /\ WF_vars(TimerAdvance)

\* The kernel loop on either board: the one with the loaded process, the one
\* with no process.
SpecAnyBoard == (Init \/ InitNoProcesses) /\ [][Next]_vars

(***************************************************************************)
(* The time accounting on its own: do_process about to leave, with any     *)
(* timeslice and any timer reading.  An unexpired timer reads no more      *)
(* than the timeslice it was started with.                                 *)
(***************************************************************************)
TimeInputs ==
    {U32Of(0), U32Of(1), U32Of(400), U32Of(500), U32Of(501), U32Of(9600),
     U32Of(10000), U32Of(10001), U32Of(65535), U32Of(65536), U32Of(70000),
     <<32768, 0>>, <<65535, 65534>>, U32_MAX}

InitTimeExecuted ==
    /\ pc = "exit"
    /\ panic_msg = None
    /\ ipc = FALSE
    /\ work = U32Of(1)
    /\ processes = LoadedProcesses
    /\ process_identifier_max = 1
    /\ grant_counter = 1
    /\ grants_finalized = TRUE
    /\ api_call = [op |-> "kernel_loop"]
    /\ identifiers = <<0>>
    /\ finalized_counts = {1}
    /\ in_flight = NoneOpt
    /\ work_calls = [inc |-> 0, dec |-> 0]
    /\ state = "Running"
    /\ tasks = <<>>
    /\ syscall_return = None
    /\ retval_writes = 0
    /\ callbacks = {}
    /\ cleared = {}
    /\ previous_arm = None
    /\ pending_interrupts = FALSE
    /\ deferred_calls = FALSE
    /\ mpu_enabled = FALSE
    /\ mpu_config = NoneOpt
    /\ timer_armed = FALSE
    /\ timeslice_us \in {Some(t) : t \in TimeInputs}
    /\ next_appid = Some(TheAppId)
    /\ timer_remaining \in TimeInputs
    /\ timer_expired \in BOOLEAN
    /\ U32Lt(Unwrap(timeslice_us), timer_remaining) => timer_expired
    /\ watchdog_suspended = FALSE
    /\ return_reason = "TimesliceExpired"
    /\ time_executed_us = NoneOpt
    /\ remaining_at_exit = NoneOpt
    /\ syscall = NoSyscall
    /\ filter_verdict = "Ok"
    /\ invoked = <<>>
    /\ removed = 0

NextTimeExecuted ==
    \/ Exit
    \/ ExitOverflow

SpecTimeExecuted == InitTimeExecuted /\ [][NextTimeExecuted]_vars

(***************************************************************************)
(* The Kernel's registry during board setup, before kernel_loop: grants    *)
(* are created, processes are loaded and restarted, and the holders of     *)
(* the external-process capability adjust the work counter.                *)
(***************************************************************************)
\* Bounds on the counters in this part of the model.
MaxGrants == 2

MaxIdentifiers == 3

MaxWork == 2

Untouched ==
    UNCHANGED <<in_flight, work_calls, ipc, process_vars, callbacks, cleared, previous_arm,
                chip_vars, timer_vars, call_vars>>

InitKernel ==
    /\ pc = "boot"
    /\ panic_msg = None
    /\ ipc = FALSE
    /\ work = U32Of(0)
    /\ processes = [i \in 0 .. NUM_PROCS - 1 |-> NoneOpt]
    /\ process_identifier_max = 0
    /\ grant_counter = 0
    /\ grants_finalized = FALSE
    /\ api_call = [op |-> "new"]
    /\ identifiers = <<>>
    /\ finalized_counts = {}
    /\ in_flight = NoneOpt
    /\ work_calls = [inc |-> 0, dec |-> 0]
    /\ state = "Unstarted"
    /\ tasks = <<>>
    /\ syscall_return = None
    /\ retval_writes = 0
    /\ callbacks = {}
    /\ cleared = {}
    /\ previous_arm = None
    /\ pending_interrupts = FALSE
    /\ deferred_calls = FALSE
    /\ mpu_enabled = FALSE
    /\ mpu_config = NoneOpt
    /\ timer_armed = FALSE
    /\ timer_expired = FALSE
    /\ timer_remaining = U32Of(0)
    /\ watchdog_suspended = FALSE
    /\ timeslice_us = NoneOpt
    /\ next_appid = NoneOpt
    /\ return_reason = None
    /\ time_executed_us = NoneOpt
    /\ remaining_at_exit = NoneOpt
    /\ syscall = NoSyscall
    /\ filter_verdict = "Ok"
    /\ invoked = <<>>
    /\ removed = 0

\* create_grant that does not look at the flag.
create_grant_unchecked ==
    /\ pc = "boot"
    /\ grant_counter < MaxGrants
    /\ grant_counter' = grant_counter + 1
    /\ api_call' = [op |-> "create_grant", result |-> grant_counter]
    /\ UNCHANGED <<pc, panic_msg, work, processes, process_identifier_max,
                   grants_finalized, identifiers, finalized_counts>>
    /\ Untouched

\* The grant's index is the counter before the increment.
create_grant ==
    /\ pc = "boot"
    /\ IF grants_finalized
       THEN /\ Panic("Grants finalized. Cannot create a new grant.")
            /\ api_call' = [op |-> "create_grant"]
            /\ UNCHANGED grant_counter
       ELSE /\ grant_counter < MaxGrants
            /\ grant_counter' = grant_counter + 1
            /\ api_call' = [op |-> "create_grant", result |-> grant_counter]
            /\ UNCHANGED <<pc, panic_msg>>
    /\ UNCHANGED <<work, processes, process_identifier_max, grants_finalized,
                   identifiers, finalized_counts>>
    /\ Untouched

\* The count returned with the flag left as it was.
get_grant_count_no_finalize ==
    /\ finalized_counts' = finalized_counts \cup {grant_counter}
    /\ UNCHANGED <<grants_finalized, grant_counter>>

\* Marks the grants finalized and returns grant_counter.
get_grant_count_and_finalize ==
    /\ grants_finalized' = TRUE
    /\ finalized_counts' = finalized_counts \cup {grant_counter}
    /\ UNCHANGED grant_counter

get_grant_count_and_finalize_external ==
    /\ pc = "boot"
    /\ get_grant_count_and_finalize
    /\ api_call' = [op |-> "get_grant_count_and_finalize_external",
                    result |-> grant_counter]
    /\ UNCHANGED <<pc, panic_msg, work, processes, process_identifier_max, identifiers>>
    /\ Untouched

\* get for get_and_increment: the counter is returned and left as it was.
create_process_identifier_no_increment ==
    /\ identifiers' = Append(identifiers, process_identifier_max)
    /\ UNCHANGED process_identifier_max

\* Returns process_identifier_max and increments it.
create_process_identifier ==
    /\ identifiers' = Append(identifiers, process_identifier_max)
    /\ process_identifier_max' = process_identifier_max + 1

EmptySlots == {i \in DOMAIN processes : processes[i] = NoneOpt}

\* A process is created in the first empty slot: the grants are finalized
\* and the process gets a new identifier.
LoadProcess ==
    /\ pc = "boot"
    /\ EmptySlots # {}
    /\ process_identifier_max < MaxIdentifiers
    /\ get_grant_count_and_finalize
    /\ create_process_identifier
    /\ LET i == CHOOSE j \in EmptySlots : \A k \in EmptySlots : j <= k
       IN  processes' = [processes EXCEPT
                            ![i] = Some([index |-> i, id |-> process_identifier_max])]
    /\ api_call' = [op |-> "create", result |-> process_identifier_max]
    /\ UNCHANGED <<pc, panic_msg, work>>
    /\ Untouched

\* A process is restarted in its slot under a new identifier.
RestartProcess ==
    /\ pc = "boot"
    /\ process_identifier_max < MaxIdentifiers
    /\ \E i \in DOMAIN processes \ EmptySlots :
          processes' = [processes EXCEPT
                           ![i] = Some([index |-> i, id |-> process_identifier_max])]
    /\ create_process_identifier
    /\ api_call' = [op |-> "restart", result |-> process_identifier_max]
    /\ UNCHANGED <<pc, panic_msg, work, grant_counter, grants_finalized, finalized_counts>>
    /\ Untouched

IncrementWork ==
    /\ pc = "boot"
    /\ U32Lt(work, U32Of(MaxWork))
    /\ work' = increment_work(work)
    /\ \E op \in {"increment_work", "increment_work_external"} : api_call' = [op |-> op]
    /\ UNCHANGED <<pc, panic_msg, processes, process_identifier_max, grant_counter,
                   grants_finalized, identifiers, finalized_counts>>
    /\ Untouched

\* Cell::decrement is self.set(self.get() - 1): at zero a build with
\* overflow checks panics and a build without them wraps.
DecrementWork ==
    /\ pc = "boot"
    /\ U32Le(work, U32Of(MaxWork))
    /\ \E op \in {"decrement_work", "decrement_work_external"} : api_call' = [op |-> op]
    /\ \/ /\ work' = decrement_work(work)
          /\ UNCHANGED <<pc, panic_msg>>
       \/ /\ work = U32Of(0)
          /\ Panic("attempt to subtract with overflow")
          /\ UNCHANGED work
    /\ UNCHANGED <<processes, process_identifier_max, grant_counter, grants_finalized,
                   identifiers, finalized_counts>>
    /\ Untouched

NextKernel ==
    \/ create_grant
    \/ get_grant_count_and_finalize_external
    \/ LoadProcess
    \/ RestartProcess
    \/ IncrementWork
    \/ DecrementWork

SpecKernel == InitKernel /\ [][NextKernel]_vars


(***************************************************************************)
(* The work counter with interrupts.  Kernel.work is a Cell<usize>: a call *)
(* on it is a get followed by a set, with nothing in sched.rs masking      *)
(* interrupts around the two.  A call made in interrupt context runs to    *)
(* its end between two instructions of the kernel thread.                  *)
(***************************************************************************)
MaxCalls == 4

CallsMade == work_calls.inc + work_calls.dec + (IF in_flight = NoneOpt THEN 0 ELSE 1)

\* The counter and the count of calls after the call op has stored over the
\* value w it had read.
WorkStored(op, w) ==
    IF op = "increment_work"
    THEN /\ work' = increment_work(w)
         /\ work_calls' = [work_calls EXCEPT !.inc = @ + 1]
    ELSE /\ work' = decrement_work(w)
         /\ work_calls' = [work_calls EXCEPT !.dec = @ + 1]

KernelUntouched ==
    UNCHANGED <<pc, panic_msg, processes, process_identifier_max, grant_counter,
                grants_finalized, identifiers, finalized_counts, ipc, process_vars, callbacks,
                cleared, previous_arm, chip_vars, timer_vars, call_vars>>

\* The kernel thread's increment_work or decrement_work reads the cell.
WorkGet ==
    /\ pc = "boot"
    /\ in_flight = NoneOpt
    /\ CallsMade < MaxCalls
    /\ \E op \in {"increment_work", "decrement_work"} :
          /\ in_flight' = Some([op |-> op, value |-> work])
          /\ api_call' = [op |-> op]
    /\ UNCHANGED <<work, work_calls>>
    /\ KernelUntouched

\* The kernel thread's call writes the cell from the value it read.
WorkSet ==
    /\ pc = "boot"
    /\ in_flight # NoneOpt
    /\ WorkStored(Unwrap(in_flight).op, Unwrap(in_flight).value)
    /\ in_flight' = NoneOpt
    /\ UNCHANGED api_call
    /\ KernelUntouched

\* increment_work_external or decrement_work_external called in interrupt
\* context: its get and its set come together, wherever the kernel thread is.
WorkExternalInInterrupt ==
    /\ pc = "boot"
    /\ CallsMade < MaxCalls
    /\ \E op \in {"increment_work", "decrement_work"} :
          /\ WorkStored(op, work)
          /\ api_call' = [op |-> op \o "_external"]
    /\ UNCHANGED in_flight
    /\ KernelUntouched

NextWork ==
    \/ WorkGet
    \/ WorkSet
    \/ WorkExternalInInterrupt

SpecWork == InitKernel /\ [][NextWork]_vars

(***************************************************************************)
(* Properties.                                                             *)
(***************************************************************************)
StoppedStates == {"StoppedRunning", "StoppedYielded", "StoppedFaulted"}

\* The checks at the head of the loop, as the source states them.
TimerSaysStop ==
    timer_expired \/ U32Le(timer_remaining, U32Of(MIN_QUANTA_THRESHOLD_US))

KernelWorkWaits == pending_interrupts \/ deferred_calls

AtDispatch == pc = "head" /\ ~TimerSaysStop /\ ~KernelWorkWaits

\* C1: the dispatcher never switches to a process in the Fault state: the
\* process is never in Fault while user code runs, and an iteration that
\* gets to the state dispatch with the process in Fault panics with
\* "Attempted to schedule a faulty process" and does nothing else.
FaultyProcessNeverRun ==
    [][/\ pc' = "user" => state' # "Fault"
       /\ (AtDispatch /\ state = "Fault" /\ pc' # pc) =>
             /\ pc' = "panic"
             /\ panic_msg' = "Attempted to schedule a faulty process"
             /\ mpu_enabled' = FALSE]_vars

FaultyProcessPanicked ==
    /\ pc = "panic"
    /\ panic_msg = "Attempted to schedule a faulty process"
    /\ state = "Fault"

\* The exact sum of two u32 values (its high limb overflows rather than wraps).
U32Sum(a, b) ==
    <<a[1] + b[1] + ((a[2] + b[2]) \div LimbBase), (a[2] + b[2]) % LimbBase>>

\* C2: when do_process returns from a run with timeslice T and the timer
\* read r on the way out, the reported time t is T - r if r <= T and T if
\* r > T; so t <= T.
TimeExecutedWithinTimeslice ==
    (pc = "result" /\ timeslice_us # NoneOpt) =>
        /\ time_executed_us # NoneOpt
        /\ remaining_at_exit # NoneOpt
        /\ LET T == Unwrap(timeslice_us)
               r == Unwrap(remaining_at_exit)
               t == Unwrap(time_executed_us)
           IN  /\ U32Le(r, T) => U32Sum(t, r) = T
               /\ U32Lt(T, r) => t = T
               /\ U32Le(t, T)

TimeExecutedClamped ==
    /\ pc = "result"
    /\ timeslice_us = Some(U32Of(10000))
    /\ remaining_at_exit = Some(U32_MAX)
    /\ time_executed_us = Some(U32Of(10000))

\* C3: an iteration that starts with the timer expired or with no more than
\* MIN_QUANTA_THRESHOLD_US left breaks with TimesliceExpired and does not
\* switch to the process; do_process returns the reason it broke with; and
\* a call with a timeslice of no more than the threshold never runs the
\* process and returns TimesliceExpired.
QuantumThresholdRespected ==
    [][/\ (pc = "head" /\ TimerSaysStop /\ pc' # pc) =>
             /\ pc' = "exit"
             /\ return_reason' = "TimesliceExpired"
             /\ mpu_enabled' = FALSE
       /\ (pc = "exit" /\ pc' = "result") => return_reason' = return_reason
       /\ (pc' \in {"user", "result"} /\ timeslice_us' # NoneOpt
              /\ U32Le(Unwrap(timeslice_us'), U32Of(MIN_QUANTA_THRESHOLD_US))) =>
             /\ pc' = "result"
             /\ return_reason' = "TimesliceExpired"]_vars

BrokeAtThreshold ==
    /\ pc = "exit"
    /\ return_reason = "TimesliceExpired"
    /\ timeslice_us = Some(U32Of(10000))
    /\ ~timer_expired
    /\ timer_remaining = U32Of(MIN_QUANTA_THRESHOLD_US)

StoppedReason(s) == IF s = "StoppedFaulted" THEN "StoppedFaulted" ELSE "Stopped"

\* C4 as stated: do_process called on a process in a Stopped* state does not
\* switch to it and returns Stopped (StoppedRunning, StoppedYielded) or
\* StoppedFaulted (StoppedFaulted).
StoppedAlwaysReported ==
    /\ pc = "user" => state \notin StoppedStates
    /\ (pc = "result" /\ state \in StoppedStates) => return_reason = StoppedReason(state)

\* C4 as amended: do_process called on a process in a Stopped* state does
\* not switch to it; an iteration that gets to the state dispatch breaks
\* with Stopped or StoppedFaulted as the state says, and the call returns
\* that reason unless a check at the head of the loop broke first with
\* TimesliceExpired or KernelPreemption.
StoppedReportedAtDispatch ==
    [][/\ pc' = "user" => state' \notin StoppedStates
       /\ (AtDispatch /\ state \in StoppedStates /\ pc' # pc) =>
             /\ pc' = "exit"
             /\ return_reason' = StoppedReason(state)
       /\ (pc' = "result" /\ state' \in StoppedStates) =>
             return_reason' \in {StoppedReason(state'), "TimesliceExpired",
                                 "KernelPreemption"}]_vars

StoppedFaultedReported ==
    /\ pc = "result"
    /\ state = "StoppedFaulted"
    /\ return_reason = "StoppedFaulted"


Range(q) == {q[i] : i \in 1..Len(q)}

DriverOperations == {"subscribe", "command", "allow"}

Denied == pc = "syscall" /\ syscall.class # "YIELD" /\ filter_verdict # "Ok"

\* C5: when filter_syscall denies a syscall other than YIELD, the filter's
\* error is written as the return value, once; nothing but the filter is
\* invoked (no memop, no driver operation, no removal of pending
\* callbacks); the process state, which is Running, and the task queue stay
\* as they were; and the loop continues.
FilterDenialOnlyReports ==
    [][/\ Denied => /\ state = "Running"
                    /\ state' = state
                    /\ tasks' = tasks
                    /\ work' = work
                    /\ callbacks' = callbacks
                    /\ pc' \in {"syscall", "handled"}
       /\ (Denied /\ pc' # pc) =>
             /\ syscall_return' = filter_verdict
             /\ retval_writes' = 1
             /\ invoked' = <<"filter_syscall">>
             /\ removed' = 0
       /\ (Denied /\ pc' = pc) =>
             /\ syscall_return' = syscall_return
             /\ retval_writes' = 0
             /\ filter_verdict' = filter_verdict
             /\ invoked' = <<>>
       /\ (pc = "handled" /\ filter_verdict # "Ok") =>
             /\ retval_writes' = 1
             /\ state' = "Running"
             /\ tasks' = tasks
             /\ pc' \in {"handled", "head"}]_vars

DeniedSubscribeKeptCallback ==
    /\ pc = "handled"
    /\ filter_verdict # "Ok"
    /\ syscall.class = "SUBSCRIBE"
    /\ FunctionCall(CallbackIdOf(syscall)) \in Range(tasks)
    /\ syscall_return = filter_verdict

\* The queue without the tasks equal to t, the others in their order.
RECURSIVE Without(_, _)
Without(q, t) ==
    IF q = <<>> THEN <<>>
    ELSE IF Head(q) = t THEN Without(Tail(q), t)
    ELSE <<Head(q)>> \o Without(Tail(q), t)

Unfiltered(class) == pc = "syscall" /\ syscall.class = class /\ filter_verdict = "Ok"

\* C6: handling an unfiltered SUBSCRIBE(d,s,_) takes every FunctionCall of
\* identity (d,s) off the task queue and leaves the other tasks queued in
\* their order; this is done before the driver's subscribe is invoked; and
\* what the driver's subscribe does to the queue keeps the tasks that were
\* there, so none queued before the call with identity (d,s) is left.
SubscribeDropsPending ==
    [][/\ (Unfiltered("SUBSCRIBE") /\ pc' # pc) =>
             /\ pc' = "subscribe"
             /\ tasks' = Without(tasks, FunctionCall(CallbackIdOf(syscall)))
             /\ FunctionCall(CallbackIdOf(syscall)) \notin Range(tasks')
             /\ "subscribe" \notin Range(invoked')
             /\ callbacks' = callbacks
       /\ (pc = "subscribe" /\ pc' # pc) =>
             /\ pc' = "handled"
             /\ FunctionCall(CallbackIdOf(syscall)) \notin Range(tasks)
             /\ Len(tasks') >= Len(tasks)
             /\ SubSeq(tasks', 1, Len(tasks)) = tasks
       /\ (pc = "subscribe" /\ pc' = pc) => tasks' = tasks]_vars

PendingDroppedOthersKept ==
    /\ pc = "subscribe"
    /\ removed > 0
    /\ tasks # <<>>
    /\ "subscribe" \notin Range(invoked)

\* The dispatcher delivers the callback at the head of the queue.
Delivers(id) ==
    /\ pc = "head"
    /\ pc' = "head"
    /\ tasks # <<>>
    /\ Head(tasks) = FunctionCall(id)
    /\ tasks' = Tail(tasks)

\* C7: once SUBSCRIBE(d,s,null) is handled (pending (d,s) callbacks removed
\* and the driver given no callback), no callback of identity (d,s) is
\* queued, and none is delivered to the process until a SUBSCRIBE(d,s,p)
\* with p not null is handled.
ClearedNeverDelivered ==
    [][/\ \A id \in CallbackIds :
             id \in cleared' => FunctionCall(id) \notin Range(tasks')
       /\ \A id \in CallbackIds : Delivers(id) => id \notin cleared
       /\ \A id \in CallbackIds :
             (id \in cleared /\ id \notin cleared') =>
                 /\ pc = "subscribe"
                 /\ syscall.class = "SUBSCRIBE"
                 /\ ~syscall.callback_null
                 /\ CallbackIdOf(syscall) = id]_vars

ClearedWhilePending ==
    /\ pc = "handled"
    /\ syscall.class = "SUBSCRIBE"
    /\ syscall.callback_null
    /\ removed > 0
    /\ CallbackIdOf(syscall) \in cleared

NoDriver(sc) ==
    /\ sc.class \in {"COMMAND", "SUBSCRIBE", "ALLOW"}
    /\ sc.driver_number \notin BoardDrivers

\* C8: an unfiltered COMMAND, SUBSCRIBE or ALLOW for a driver number the
\* board maps to no driver gets ENODEVICE as its return value, no driver
\* operation is invoked, the process stays Running, and the loop goes round:
\* unless the timeslice or the kernel-work check breaks first, the process
\* is switched to again.
UnknownDriverReported ==
    [][/\ (pc \in {"syscall", "subscribe"} /\ filter_verdict = "Ok" /\ NoDriver(syscall)) =>
             /\ state = "Running"
             /\ state' = "Running"
             /\ pc' \in {pc, "subscribe", "handled"}
             /\ Range(invoked') \cap DriverOperations = {}
             /\ pc' = "handled" => /\ syscall_return' = "ENODEVICE"
                                   /\ retval_writes' = 1
       /\ (pc = "handled" /\ filter_verdict = "Ok" /\ NoDriver(syscall)) =>
             /\ state' = "Running"
             /\ syscall_return' = "ENODEVICE"
             /\ pc' \in {"handled", "head"}
       /\ (AtDispatch /\ state = "Running" /\ pc' # pc) =>
             /\ pc' = "mpu_setup"
             /\ state' = "Running"
       /\ (pc = "mpu_setup" /\ pc' # pc) => (pc' = "mpu_on" /\ state' = "Running")
       /\ (pc = "mpu_on" /\ pc' # pc) => (pc' = "user" /\ state' = "Running")]_vars

UnknownDriverCommandHandled ==
    /\ pc = "handled"
    /\ filter_verdict = "Ok"
    /\ syscall.class = "COMMAND"
    /\ syscall.driver_number \notin BoardDrivers
    /\ syscall_return = "ENODEVICE"
    /\ invoked = <<"filter_syscall", "with_driver">>

InvalidTarget(sc) ==
    \/ NoDriver(sc)
    \/ sc.class = "ALLOW" /\ ~sc.slice_valid

\* C9: handling an unfiltered syscall with an invalid target (a driver
\* number with no driver, which includes SUBSCRIBE to such a number, or an
\* ALLOW of an invalid slice) changes neither the process state nor the
\* task queue, and reports an error ReturnCode.
InvalidTargetChangesNothing ==
    [][(pc \in {"syscall", "subscribe"} /\ filter_verdict = "Ok" /\ InvalidTarget(syscall)) =>
           /\ state' = state
           /\ tasks' = tasks
           /\ work' = work
           /\ callbacks' = callbacks
           /\ pc' = "handled" => syscall_return' \in {"ENODEVICE", "EINVAL"}]_vars

InvalidSliceHandled ==
    /\ pc = "handled"
    /\ filter_verdict = "Ok"
    /\ syscall.class = "ALLOW"
    /\ syscall.driver_number \in BoardDrivers
    /\ ~syscall.slice_valid
    /\ syscall_return = "EINVAL"
    /\ tasks # <<>>

\* C10: from a switch_to that returned SyscallFired to the next switch_to
\* or the return of do_process, set_syscall_return_value is called once if
\* the syscall is MEMOP, SUBSCRIBE, COMMAND or ALLOW and not at all if it is
\* YIELD: the count starts at 0, the handling ends with it at 1 (0 for
\* YIELD), the handling always ends before the loop goes on, and nothing
\* else writes a return value.
ReturnValueWrittenOnce ==
    [][/\ (pc = "user" /\ pc' = "syscall") => retval_writes' = 0
       /\ pc \in {"syscall", "subscribe"} => pc' \in {pc, "subscribe", "handled"}
       /\ (pc \in {"syscall", "subscribe"} /\ pc' = "handled") =>
             /\ syscall' = syscall
             /\ syscall.class \in {"YIELD", "MEMOP", "SUBSCRIBE", "COMMAND", "ALLOW"}
             /\ retval_writes' = IF syscall.class = "YIELD" THEN 0 ELSE 1
             /\ syscall.class # "YIELD" => syscall_return' # None
       /\ (pc \in {"syscall", "subscribe"} /\ pc' # "handled") =>
             retval_writes' = 0
       /\ pc \notin {"user", "syscall", "subscribe"} =>
             /\ retval_writes' = retval_writes
             /\ syscall_return' = syscall_return \/ pc' = "user"]_vars

MemopReturnWritten ==
    /\ pc = "handled"
    /\ syscall.class = "MEMOP"
    /\ filter_verdict = "Ok"
    /\ retval_writes = 1
    /\ syscall_return \in DriverReturnCodes


CreateGrantCalled ==
    /\ api_call'.op = "create_grant"
    /\ <<pc, grant_counter>>' # <<pc, grant_counter>>

\* C11: grants_finalized is one-way: once get_grant_count_and_finalize (or
\* its _external variant) has been called the flag stays set, every later
\* create_grant panics and leaves grant_counter as it was, and every later
\* get_grant_count_and_finalize returns the count the first one returned.
GrantsFinalizedOneWay ==
    [][/\ grants_finalized => grants_finalized'
       /\ (finalized_counts' # {}) => grants_finalized'
       /\ (grants_finalized /\ CreateGrantCalled) =>
             /\ pc' = "panic"
             /\ panic_msg' = "Grants finalized. Cannot create a new grant."
             /\ grant_counter' = grant_counter
       /\ Cardinality(finalized_counts') <= 1]_vars

CreateGrantAfterFinalizePanicked ==
    /\ pc = "panic"
    /\ panic_msg = "Grants finalized. Cannot create a new grant."
    /\ grants_finalized
    /\ finalized_counts = {grant_counter}
    /\ in_flight = NoneOpt
    /\ work_calls = [inc |-> 0, dec |-> 0]
    /\ grant_counter > 0

Living == DOMAIN processes \ EmptySlots

LookupAppIds == [index : 0 .. NUM_PROCS, id : 0 .. MaxIdentifiers]

\* The default handed to process_map_or: not the AppId of any process.
NoAppId == [index |-> NUM_PROCS, id |-> -1]

\* C13: for every AppId a, if appid_is_valid(a) then
\* process_map_or(default, a, |p| p.appid()) runs the closure on the
\* occupant of slot a.index and returns a, not the default; and
\* process_map_or runs its closure only when appid_is_valid(a).
ValidAppIdIsFound ==
    \A a \in LookupAppIds :
        /\ appid_is_valid(a) =>
              /\ process_map_or(a)
              /\ process_map_or_appid(NoAppId, a) = a
              /\ process_map_or_appid(NoAppId, a) = Unwrap(processes[a.index])
        /\ process_map_or(a) => appid_is_valid(a)
        /\ ~process_map_or(a) => process_map_or_appid(NoAppId, a) = NoAppId

ValidAndStaleAppIds ==
    /\ appid_is_valid([index |-> 0, id |-> 1])
    /\ process_map_or_appid(NoAppId, [index |-> 0, id |-> 1]) = [index |-> 0, id |-> 1]
    /\ ~appid_is_valid([index |-> 0, id |-> 0])
    /\ 1 \in Living

DecrementCalled ==
    /\ api_call'.op \in {"decrement_work", "decrement_work_external"}
    /\ <<pc, work>>' # <<pc, work>>

\* C14: under any sequence of increment_work, decrement_work,
\* increment_work_external and decrement_work_external calls the work
\* counter never underflows: no decrement is applied to a counter equal to
\* zero, and the counter never wraps to a large value.
WorkNeverUnderflows ==
    [][DecrementCalled => /\ work # U32Of(0)
                          /\ U32Lt(work', work)]_vars


NoProcesses == DOMAIN processes = {}

\* C15: with an empty process table and the default policy kernel_loop
\* never calls next(): the work counter stays 0, break_for_kernel_tasks is
\* true at every check of the inner loop, which leaves for the gate, and
\* the gate goes to sleep in the first outer iteration that finds no
\* interrupt and no deferred call pending.
EmptyTableNeverAsksPolicy ==
    [][NoProcesses =>
          /\ work = U32Of(0)
          /\ work' = U32Of(0)
          /\ pc' \in {"outer", "inner", "gate", "sleep"}
          /\ pc = "inner" => /\ break_for_kernel_tasks
                             /\ pc' \in {"inner", "gate"}
          /\ (pc = "gate" /\ ~pending_interrupts /\ ~deferred_calls) =>
                pc' \in {"gate", "sleep"}
          /\ (pc = "gate" /\ pc' = "sleep") =>
                ~pending_interrupts /\ ~deferred_calls]_vars

EmptyTableAsleep ==
    /\ NoProcesses
    /\ pc = "sleep"
    /\ watchdog_suspended
    /\ ~pending_interrupts

\* C16: under every interleaving of interrupt arrivals the CPU goes to sleep
\* only from the gate, and only when the gate finds no interrupt pending, no
\* deferred call pending and the work counter zero; the watchdog is
\* suspended as the CPU goes to sleep, resumed as it wakes, and suspended
\* at no other point.
SleepOnlyWhenIdle ==
    [][/\ (pc' = "sleep" /\ pc # "sleep") =>
             /\ pc = "gate"
             /\ ~pending_interrupts
             /\ ~deferred_calls
             /\ work = U32Of(0)
             /\ ~watchdog_suspended
             /\ watchdog_suspended'
       /\ (pc = "sleep" /\ pc' # "sleep") =>
             /\ pending_interrupts
             /\ pc' = "outer"
             /\ ~watchdog_suspended'
       /\ watchdog_suspended' <=> pc' = "sleep"]_vars

WokenByInterrupt ==
    /\ pc = "outer"
    /\ pending_interrupts
    /\ ~watchdog_suspended
    /\ work = U32Of(0)
    /\ state = "Yielded"


\* C17: no wakeup is lost: whenever an interrupt or a deferred call is
\* pending, wherever the kernel loop is (between the inner loop's check and
\* the gate and asleep included), execute_kernel_work is eventually called
\* with the watchdog running, unless the kernel panics first (a do_process
\* that does not return).
PendingInterruptServiced ==
    (pending_interrupts \/ deferred_calls) ~>
        ((pc = "outer" /\ ~watchdog_suspended /\ ENABLED ExecuteKernelWork) \/ pc = "panic")

InterruptPendingAsleep ==
    /\ pc = "sleep"
    /\ pending_interrupts
    /\ watchdog_suspended

\* The iteration of do_process's loop that follows the handling of a YIELD.
AfterYield == previous_arm = "YIELD"

\* C18 as claimed: a Running process's YIELD makes it Yielded and the loop
\* continues; on the next iteration, with no kernel work forcing a return and
\* the task queue empty, do_process breaks with NoWorkLeft, and (NoWorkLeft,
\* time) is what it hands to result, with no time in a cooperative run.
YieldThenNoWorkLeft ==
    [][/\ (pc = "syscall" /\ syscall.class = "YIELD" /\ state = "Running" /\ pc' # pc) =>
             /\ state' = "Yielded"
             /\ pc' = "handled"
       /\ (pc = "handled" /\ AfterYield /\ pc' # pc) =>
             /\ pc' = "head"
             /\ AfterYield'
             /\ UNCHANGED <<state, tasks>>
       /\ (pc = "head" /\ AfterYield /\ ~KernelWorkWaits /\ tasks = <<>> /\ pc' # pc) =>
             /\ pc' = "exit"
             /\ return_reason' = "NoWorkLeft"
       /\ (pc = "exit" /\ pc' = "result") =>
             /\ return_reason' = return_reason
             /\ timeslice_us = NoneOpt => time_executed_us' = NoneOpt]_vars

\* C18 as amended: the next iteration breaks with NoWorkLeft when, besides,
\* the timer check at the head of the loop does not break; when it does the
\* reason is TimesliceExpired.
YieldThenNoWorkLeftInTime ==
    [][/\ (pc = "syscall" /\ syscall.class = "YIELD" /\ state = "Running" /\ pc' # pc) =>
             /\ state' = "Yielded"
             /\ pc' = "handled"
       /\ (pc = "handled" /\ AfterYield /\ pc' # pc) =>
             /\ pc' = "head"
             /\ AfterYield'
             /\ UNCHANGED <<state, tasks>>
       /\ (pc = "head" /\ AfterYield /\ ~KernelWorkWaits /\ tasks = <<>> /\ pc' # pc) =>
             /\ pc' = "exit"
             /\ return_reason' = IF TimerSaysStop THEN "TimesliceExpired"
                                 ELSE "NoWorkLeft"
       /\ (pc = "exit" /\ pc' = "result") =>
             /\ return_reason' = return_reason
             /\ timeslice_us = NoneOpt => time_executed_us' = NoneOpt]_vars

YieldedWithNothingQueued ==
    /\ pc = "head"
    /\ AfterYield
    /\ state = "Yielded"
    /\ tasks = <<>>
    /\ ~KernelWorkWaits
    /\ ~TimerSaysStop
    /\ timeslice_us = NoneOpt
    /\ return_reason = "NoWorkLeft"

\* The iteration of do_process's loop that follows a switch_to that returned
\* Fault or no reason.
AfterFault == previous_arm = "Fault"

SchedulingFaulty == "Attempted to schedule a faulty process"

\* C19 as claimed: when switch_to returns Fault or no reason the process is
\* put in the Fault state and the loop goes round, and on the next iteration
\* the kernel panics with 'Attempted to schedule a faulty process'.
FaultThenPanic ==
    [][/\ (pc = "user" /\ AfterFault') =>
             /\ state' = "Fault"
             /\ pc' = "head"
       /\ (pc = "head" /\ AfterFault /\ pc' # pc) =>
             /\ pc' = "panic"
             /\ panic_msg' = SchedulingFaulty]_vars

\* C19 as amended: the next iteration panics when it reaches the match on
\* the state; a check at the head of the loop that breaks first makes
\* do_process return TimesliceExpired or KernelPreemption with the process
\* in Fault.
FaultThenPanicAtDispatch ==
    [][/\ (pc = "user" /\ AfterFault') =>
             /\ state' = "Fault"
             /\ pc' = "head"
       /\ (pc = "head" /\ AfterFault /\ pc' # pc) =>
             /\ state' = "Fault"
             /\ IF TimerSaysStop
                THEN pc' = "exit" /\ return_reason' = "TimesliceExpired"
                ELSE IF KernelWorkWaits
                     THEN pc' = "exit" /\ return_reason' = "KernelPreemption"
                     ELSE pc' = "panic" /\ panic_msg' = SchedulingFaulty]_vars

FaultedThenPanicked ==
    /\ pc = "panic"
    /\ AfterFault
    /\ state = "Fault"
    /\ panic_msg = SchedulingFaulty

\* Where the kernel thread is while do_process runs.
InDoProcess ==
    {"head", "mpu_setup", "mpu_on", "user", "syscall", "subscribe", "handled", "exit", "result"}

\* C20: execute_kernel_work opens every outer iteration, before any process
\* is selected: the outer loop's head is left only through it, and is
\* reached only from the sleep gate or from sleep.  Every next() directly
\* follows a break_for_kernel_tasks that returned false, and do_process is
\* entered only from next(): once the check returns true no process is
\* selected or run before the next execute_kernel_work.
KernelWorkBeforeProcesses ==
    [][/\ (pc = "outer" /\ pc' \notin {pc, "panic"}) => pc' = "inner"
       /\ (pc' = "outer" /\ pc # "outer") => pc \in {"gate", "sleep"}
       /\ (pc' = "next" /\ pc # "next") => (pc = "inner" /\ ~break_for_kernel_tasks)
       /\ (pc' \in InDoProcess /\ pc \notin InDoProcess) => (pc = "next" /\ pc' = "head")
       /\ (pc = "next" /\ pc' # pc) => pc' \in {"inner", "head"}
       /\ (pc = "inner" /\ break_for_kernel_tasks /\ pc' # pc) =>
             pc' \in {"gate", "panic"}]_vars

ProcessSelectedAfterCheck ==
    /\ pc = "head"
    /\ return_reason = "NoWorkLeft"
    /\ previous_arm = None
    /\ ~break_for_kernel_tasks
    /\ state = "Running"

NoMatch(a) ==
    \/ a.index < 0
    \/ a.index >= NUM_PROCS
    \/ processes[a.index] = NoneOpt
    \/ Unwrap(processes[a.index]).id # a.id

\* C22: process_map_or(default, appid, F) returns default and does not run F
\* when appid.index is outside the table, the slot is empty or the occupant
\* has a different identifier; otherwise it runs F on the occupant, whatever
\* the occupant's state: the main loop's lookup of the process next() named
\* enters do_process on a Stopped* process too.
LookupIgnoresState ==
    /\ \A a \in LookupAppIds :
          IF NoMatch(a)
          THEN /\ ~process_map_or(a)
               /\ process_map_or_appid(NoAppId, a) = NoAppId
          ELSE /\ process_map_or(a)
               /\ process_map_or_appid(NoAppId, a) = Unwrap(processes[a.index])
    /\ pc = "next" => ENABLED NextDoProcess

StoppedProcessLookedUp ==
    /\ pc = "head"
    /\ state \in StoppedStates
    /\ previous_arm = None
    /\ return_reason = "NoWorkLeft"
    /\ NoMatch([index |-> 0, id |-> 1])
    /\ NoMatch([index |-> 1, id |-> 0])
    /\ NoMatch([index |-> NUM_PROCS, id |-> 0])

\* C23: the updates of the work counter are atomic with respect to interrupt
\* context: whatever the interleaving of the _external calls made in
\* interrupt context with the kernel thread's calls, once the calls are over
\* the counter is its initial value plus the increments minus the decrements.
NoWorkUpdateLost ==
    in_flight = NoneOpt =>
        work = WorkAfter(U32Of(0), work_calls.inc - work_calls.dec)

\* C24: do_process called without a timeslice runs on the dummy timer, which
\* never expires: it never breaks with TimesliceExpired, and the execution
\* time it reports is absent; called with a timeslice it reports a present
\* execution time.
CooperativeNeverPreempted ==
    /\ (pc \in InDoProcess /\ timeslice_us = NoneOpt) =>
          /\ return_reason # "TimesliceExpired"
          /\ ~has_expired
          /\ pc # "result" => get_remaining_us = DummyRemaining
    /\ pc = "result" => (time_executed_us = NoneOpt <=> timeslice_us = NoneOpt)

CooperativeRunInterrupted ==
    /\ pc = "result"
    /\ timeslice_us = NoneOpt
    /\ time_executed_us = NoneOpt
    /\ return_reason = "KernelPreemption"
    /\ state = "Running"

\* An iteration of do_process's loop acts at its head.
HeadStep == pc = "head" /\ <<pc, state, tasks>>' # <<pc, state, tasks>>

\* C25: at the head of every iteration the timeslice check comes first, then
\* leave_do_process, then the process state: with the timer run out the
\* iteration breaks with TimesliceExpired, kernel work pending or not; else
\* with kernel work pending it breaks with KernelPreemption; and in both
\* cases the state is not acted on (no panic on Fault, no Stopped reason, no
\* dequeue, no switch).  Only otherwise does the state decide.
HeadChecksInOrder ==
    [][HeadStep =>
          IF TimerSaysStop
          THEN /\ pc' = "exit"
               /\ return_reason' = "TimesliceExpired"
               /\ UNCHANGED <<state, tasks, work, panic_msg, mpu_config>>
          ELSE IF KernelWorkWaits
               THEN /\ pc' = "exit"
                    /\ return_reason' = "KernelPreemption"
                    /\ UNCHANGED <<state, tasks, work, panic_msg, mpu_config>>
               ELSE /\ return_reason' \in {return_reason, StoppedReason(state)}
                    /\ state = "Running" <=> pc' = "mpu_setup"
                    /\ state = "Fault" <=> (pc' = "panic" /\ panic_msg' = SchedulingFaulty)
                    /\ state \in StoppedStates => return_reason' = StoppedReason(state)]_vars

BothChecksWouldFire ==
    /\ pc = "exit"
    /\ return_reason = "TimesliceExpired"
    /\ timer_expired
    /\ pending_interrupts
    /\ state = "Fault"
    /\ panic_msg = None

\* Operation a is invoked in q, and before any invocation of b.
Precedes(a, b, q) ==
    \E i \in DOMAIN q : q[i] = a /\ \A j \in DOMAIN q : q[j] = b => i < j

\* The handling of an unfiltered ALLOW.
AllowHandled == Unfiltered("ALLOW") /\ pc' # pc

\* C26 as claimed: for every unfiltered ALLOW the process's validation of the
\* slice is invoked, and before the driver is looked up.
AllowValidatedBeforeLookup ==
    [][AllowHandled => Precedes("process.allow", "with_driver", invoked')]_vars

\* C26 as amended: for every unfiltered ALLOW the driver is looked up first;
\* the process's validation is invoked inside the lookup, when the driver
\* is there, and before the driver's allow; with no driver it is not invoked.
AllowLookupBeforeValidation ==
    [][AllowHandled =>
          /\ "with_driver" \in Range(invoked')
          /\ "process.allow" \in Range(invoked') <=> ~NoDriver(syscall)
          /\ ~NoDriver(syscall) =>
                /\ Precedes("with_driver", "process.allow", invoked')
                /\ Precedes("process.allow", "allow", invoked')]_vars

AllowNoDriverNotValidated ==
    /\ pc = "handled"
    /\ syscall.class = "ALLOW"
    /\ filter_verdict = "Ok"
    /\ NoDriver(syscall)
    /\ ~syscall.slice_valid
    /\ "process.allow" \notin Range(invoked)
    /\ syscall_return = "ENODEVICE"

\* C27: the driver's allow is invoked only with a slice the process's
\* validation accepted.  For an unfiltered ALLOW: driver present and
\* validation failing, the return value is the validation's error and the
\* driver's allow is not invoked; driver present and validation succeeding,
\* the return value is what the driver's allow returned; no driver, it is
\* ENODEVICE.
DriverAllowOnlyValidated ==
    [][AllowHandled =>
          /\ "allow" \in Range(invoked') <=> (~NoDriver(syscall) /\ syscall.slice_valid)
          /\ retval_writes' = 1
          /\ NoDriver(syscall) => syscall_return' = "ENODEVICE"
          /\ (~NoDriver(syscall) /\ ~syscall.slice_valid) => syscall_return' = "EINVAL"
          /\ (~NoDriver(syscall) /\ syscall.slice_valid) =>
                syscall_return' \in DriverReturnCodes]_vars

ValidSliceGivenToDriver ==
    /\ pc = "handled"
    /\ syscall.class = "ALLOW"
    /\ filter_verdict = "Ok"
    /\ syscall.slice_valid
    /\ invoked = <<"filter_syscall", "with_driver", "process.allow", "allow">>
    /\ syscall_return \in DriverReturnCodes

\* C28: a run with a timeslice terminates: with every switch_to returning
\* and the timer counting down to its expiry, do_process, wherever it is,
\* eventually returns, whatever the process does; the other way out is a
\* kernel panic.
PreemptiveRunReturns ==
    (pc \in InDoProcess /\ pc # "result" /\ timeslice_us # NoneOpt) ~>
        (pc \in {"result", "panic"})

PreemptedAfterSyscalls ==
    /\ pc = "result"
    /\ timeslice_us # NoneOpt
    /\ return_reason = "TimesliceExpired"
    /\ retval_writes > 0
    /\ state = "Running"

Waiting == state \in {"Yielded", "Unstarted"}

\* C30: an iteration that gets to the match on the state with the process
\* Yielded or Unstarted calls dequeue_task once: with the queue empty
\* do_process breaks with NoWorkLeft, else exactly the head of the queue is
\* taken, and a FunctionCall taken makes the process Running (so that the
\* next iteration switches to it and dequeues nothing).  dequeue_task is
\* called in no other state: with the process Running or Stopped* the queue
\* only shrinks by a SUBSCRIBE's removal of pending callbacks.
OneTaskPerIteration ==
    [][/\ (HeadStep /\ AtDispatch /\ Waiting) =>
             IF tasks = <<>>
             THEN pc' = "exit" /\ return_reason' = "NoWorkLeft" /\ UNCHANGED <<state, tasks>>
             ELSE /\ tasks' = Tail(tasks)
                  /\ Head(tasks).type = "FunctionCall" =>
                        (state' = "Running" /\ pc' = "head" /\ work' = work)
                  /\ Head(tasks).type = "IPC" =>
                        (state' = state /\ work' = decrement_work(work))
       /\ (pc = "head" /\ tasks' # tasks) => (AtDispatch /\ Waiting)
       /\ (Len(tasks') < Len(tasks) /\ ~Waiting) =>
             (pc = "syscall" /\ syscall.class = "SUBSCRIBE" /\ state = "Running")]_vars

FunctionCallInstalledOthersQueued ==
    /\ pc = "mpu_setup"
    /\ state = "Running"
    /\ tasks # <<>>
    /\ Head(tasks).type = "FunctionCall"
    /\ syscall_return = None
    /\ retval_writes = 0

IpcUnwired == "Kernel consistency error: IPC Task with no IPC"

\* The iteration takes an IPC task off the queue.
IpcTaskDequeued ==
    /\ HeadStep
    /\ AtDispatch
    /\ Waiting
    /\ tasks # <<>>
    /\ Head(tasks).type = "IPC"

\* C31: when an IPC task is dequeued and kernel_loop was given no IPC (as
\* this board gives none) the kernel stops on the consistency error; when it
\* was given one, the task goes to the IPC module, once (it is off the
\* queue), and the loop continues with the process in the state it had.
\* Nothing else raises the consistency error.
IpcTaskNeedsIpc ==
    [][/\ IpcTaskDequeued =>
             /\ tasks' = Tail(tasks)
             /\ state' = state
             /\ IF ipc
                THEN pc' = "head" /\ panic_msg' = None
                ELSE pc' = "panic" /\ panic_msg' = IpcUnwired
       /\ (panic_msg' = IpcUnwired /\ panic_msg # IpcUnwired) =>
             (IpcTaskDequeued /\ ~ipc)]_vars

IpcTaskOnThisBoard ==
    /\ pc = "panic"
    /\ panic_msg = IpcUnwired
    /\ ~ipc
    /\ state = "Yielded"

\* The positions inside one do_process call, before it returns.
Dispatching == InDoProcess \ {"result"}

\* C32: every do_process call that returns is followed by exactly one
\* result(reason, time_executed) with the values it returned, before the next
\* break_for_kernel_tasks or next(): do_process is entered only from next()
\* naming a process that process_map_or finds, it is left only to result (or
\* to a kernel panic), the reason and the time reach result as returned, and
\* result leads back to the break check.  When next() names no process, or
\* an AppId that matches no occupant, the loop goes back to the break check
\* with neither do_process nor result called.
ResultFollowsDoProcess ==
    [][/\ (pc = "next" /\ pc' # pc) =>
             \/ /\ pc' = "head"
                /\ next_appid' # NoneOpt
                /\ ~NoMatch(Unwrap(next_appid'))
             \/ /\ pc' = "inner"
                /\ UNCHANGED <<call_vars, process_vars, work, timer_vars>>
       /\ (pc \in InDoProcess /\ pc' = pc) => next_appid' = next_appid
       /\ (pc' = "head" /\ pc \notin Dispatching) => pc = "next"
       /\ (pc \in Dispatching /\ pc' # pc) => pc' \in InDoProcess \cup {"panic"}
       /\ (pc' = "result" /\ pc # "result") =>
             /\ pc = "exit"
             /\ return_reason \in StoppedExecutingReason
             /\ return_reason' = return_reason
             /\ time_executed_us' =
                   IF timeslice_us = NoneOpt THEN NoneOpt
                   ELSE Some(TimeExecuted(Unwrap(timeslice_us), get_remaining_us))
       /\ (pc = "result" /\ pc' = pc) => UNCHANGED <<return_reason, time_executed_us>>
       /\ (pc = "result" /\ pc' # pc) =>
             /\ pc' = "inner"
             /\ UNCHANGED <<process_vars, work>>
       /\ (pc' = "inner" /\ pc \in InDoProcess) => pc = "result"]_vars

\* do_process has returned a reason and a time, and result is about to get them.
ResultAboutToBeCalled ==
    /\ pc = "result"
    /\ return_reason = "TimesliceExpired"
    /\ time_executed_us # NoneOpt
    /\ state = "Running"

\* What is outstanding: the tasks queued for the process, and the process
\* itself while it is Running.
Outstanding == Len(tasks) + RunningWork(state)

Preempted == return_reason = "KernelPreemption" /\ pc # "panic"

\* C34: under the default policy, after do_process returns KernelPreemption
\* no process is selected or run until execute_kernel_work has been called.
\* The reason is given only with an interrupt or a deferred call pending;
\* what is pending stays pending through the return, result, the break check
\* and the sleep gate; with it pending the break check leaves the inner loop
\* without calling next(), the sleep gate does not sleep, and the outer loop
\* is left only through execute_kernel_work.
PreemptionLeadsToKernelWork ==
    [][/\ Preempted => (pc \in {"exit", "result"} /\ KernelWorkWaits)
       /\ Preempted' => (pc' \in {"exit", "result"} /\ KernelWorkWaits')
       /\ (Preempted /\ pc' # pc) =>
             \/ pc = "exit" /\ pc' \in {"result", "panic"}
             \/ pc = "result" /\ pc' = "inner" /\ KernelWorkWaits'
       /\ (pc \in {"inner", "gate"} /\ KernelWorkWaits) =>
             /\ KernelWorkWaits'
             /\ pc' \notin {"next", "sleep", "head"}
       /\ (pc = "inner" /\ KernelWorkWaits /\ pc' # pc) => pc' \in {"gate", "panic"}
       /\ (pc = "gate" /\ KernelWorkWaits /\ pc' # pc) => pc' \in {"outer", "panic"}
       /\ (pc = "outer" /\ pc' # pc) =>
             \/ pc' = "panic"
             \/ pc' = "inner" /\ (pending_interrupts => ExecuteKernelWork)
       /\ (pc' = "next" /\ pc # "next") => (pc = "inner" /\ ~KernelWorkWaits)
       /\ (pc' = "head" /\ pc \notin Dispatching) => pc = "next"]_vars

\* A deferred call asked for while the process's syscall was handled has
\* made do_process return KernelPreemption.
PreemptedByDeferredCall ==
    /\ pc = "result"
    /\ Preempted
    /\ deferred_calls
    /\ ~pending_interrupts
    /\ state = "Running"

====
